---- MODULE Spec2Model ----
(***************************************************************************)
(* A model of superscore's Client (src/superscore/client.py): the entry    *)
(* graph held by a caller, the resolver Client.fill, the leaf gatherer     *)
(* Client._gather_leaves / _gather_data and the apply engine Client.apply, *)
(* run against a keyed entry store and a live-value service (ControlLayer) *)
(* whose per-put outcome is chosen nondeterministically.                   *)
(***************************************************************************)
EXTENDS Integers, Sequences, FiniteSets, TLC

VARIABLES
    store,        \* the backend: identifier -> stored entry
    entry,        \* the entry graph the caller holds in memory
    before,       \* the caller's graph as it was when the last call began
    pc,           \* "idle", or "seq" inside the loop of a sequential apply
    op,           \* the last call: "none", "fill", "apply"
    fill_depth,   \* the fill_depth argument of the last fill (None or <<k>>)
    sequential,   \* the sequential argument of the last apply
    pv_list,      \* apply's local pv_list
    data_list,    \* apply's local data_list
    idx,          \* position of the sequential loop in zip(pv_list, data_list)
    status_list,  \* apply's local status_list
    puts,         \* the calls of ControlLayer.put made by the last call
    returned,     \* the TaskStatus objects ControlLayer.put handed back
    lookups,      \* the identifiers asked of the backend by the last call
    result,       \* the value the last call returned
    raised,       \* whether the last call ended in an exception
    leaves,       \* the entries the last _gather_leaves returned
    expanded,     \* the Nestables whose children that call pushed, in order
    entry_r,      \* the right-hand entry a caller holds for compare
    diffs,        \* the EntryDiff.diffs the last compare returned
    store_meta,   \* the backend's meta PVs (get_meta_pvs)
    live,         \* what the live-value service answered, per PV name
    gets,         \* the calls of ControlLayer.get made by the last call
    snapshot,     \* the Snapshot the last snap returned
    post,         \* the search terms the last Client.search was given
    new_search_terms,  \* the terms that call handed to the backend
    l_entry,  \* DiffDispatcher.l_entry (None or <<entry>>)
    r_entry,  \* DiffDispatcher.r_entry (None or <<entry>>)
    emitted,  \* the signals the last call of a widget emitted
    current_page,  \* main_content_stack.currentWidget()
    selected,  \* property "selected" of each nav button
    nav_expanded,  \* NavigationPanel.expanded
    text,  \* text() of the nav buttons and of the save button
    icon_only,  \* property "icon-only" of the nav buttons and of the save button
    shown,  \* the Snapshots (by uuid) set in the details and the comparison page
    items,  \* the EntryItems made so far, by number
    root_item,  \* RootTree.root_item (the number of the item, 0 before there is one)
    taken,  \* the items the last call took out of their parent
    fetched,  \* the item the last fetchMore was called for (0: none)
    thread_pc,  \* where the thread is in run()
    running,  \* _PVPollThread.running
    poll_data,  \* _PVPollThread.data, as the list of (pv name, value) in key order
    poll_period,  \* _PVPollThread.poll_period
    todo,  \* the keys the pass in progress has still to visit
    queries,  \* the PV names the thread asked ControlLayer.get for
    stop_called,  \* whether stop() was called
    passes,  \* the number of passes over data begun
    gl_q,  \* the work list of the _gather_leaves in progress (top = last)
    gl_seen,  \* the identifiers that _gather_leaves has seen
    gl_writable_only,  \* the writable_only argument of the last _gather_data
    dialog,  \* the metadata dialog of take_snapshot: "none", "open", "accepted", "rejected"
    dest_snapshot,  \* the Snapshot the dialog's slots are bound to (None before)
    listed,  \* SnapshotTableModel._data
    slot_log,  \* the slots the dialog's accepted signal has called, in order
    chips,  \* the TagChips that are children of the TagsWidget, in findChildren order
    tag_arg,  \* the TagSet the call of TagsWidget.set_tags was given, as (group, tags) items
    lv_entries,  \* LivePVTableModel.entries, as the PV names of the entries
    dicts,  \* the dict objects made so far, each the list of (pv name, value) in key order
    _data_cache,  \* LivePVTableModel._data_cache: the number of a dict (0 before the model is made)
    threads,  \* the _PVPollThreads made so far
    _poll_thread,  \* LivePVTableModel._poll_thread: the number of a thread, 0 for None
    model_client,  \* LivePVTableModel.client
    view_client,  \* LivePVTableView._client
    live_period,  \* LivePVTableModel.poll_period
    tv_cls,  \* the class of the view: "LivePVTableView" or "NestableTableView"
    tv_client,  \* the view's _client, 0 for None
    tv_data,  \* the view's data: None, or the one entry or list it holds
    sub_entries,  \* the view's sub_entries
    tv_model,  \* whether the view's _model was made
    tv_entries,  \* the entries of the view's model
    tv_alias,  \* whether the model's entries are the list object sub_entries
    tv_raised  \* whether the last call of the view raised

\* the variables of the gatherer, of compare and of snap
others == <<leaves, expanded, entry_r, diffs, store_meta, live, gets, snapshot>>

\* the variables of Client.search
search_vars == <<post, new_search_terms>>

\* the variables of DiffDispatcher and the signals of the last call
dd_vars == <<l_entry, r_entry, emitted>>

\* the variables of Window and of its NavigationPanel
win_vars == <<current_page, selected, nav_expanded, text, icon_only, shown>>

\* the variables of the tree of EntryItems
item_vars == <<items, root_item, taken, fetched>>

\* the variables of a _PVPollThread
poll_vars == <<thread_pc, running, poll_data, poll_period, todo, queries,
              stop_called, passes>>

\* the variables of a _gather_leaves in progress and of _gather_data
gather_vars == <<gl_q, gl_seen, gl_writable_only>>

\* the variables of Window.take_snapshot and of the snapshot table
take_vars == <<dialog, dest_snapshot, listed, slot_log>>

\* the variables of a TagsWidget
tag_vars == <<chips, tag_arg>>

\* the variables of a LivePVTableModel, of its view and of its poll threads
live_vars == <<lv_entries, dicts, _data_cache, threads, _poll_thread,
              model_client, view_client, live_period>>

\* the variables of a table view (BaseDataTableView) and of its model's entries
view_vars == <<tv_cls, tv_client, tv_data, sub_entries, tv_model, tv_entries,
              tv_alias, tv_raised>>

\* the variables of the components modelled last
more == <<gather_vars, take_vars, tag_vars,
          live_vars, view_vars>>

\* what a call of _gather_leaves and of take_snapshot leaves alone among these
gather_rest == <<take_vars, tag_vars, live_vars, view_vars>>

take_rest == <<gather_vars, tag_vars, live_vars, view_vars>>

tag_rest == <<gather_vars, take_vars, live_vars, view_vars>>

live_rest == <<gather_vars, take_vars, tag_vars, view_vars>>

view_rest == <<gather_vars, take_vars, tag_vars, live_vars>>

\* the variables of the search and of the widgets
ui == <<search_vars, dd_vars, win_vars, item_vars, poll_vars, more>>

\* what a call of Client.search, of DiffDispatcher, of the Window, of the
\* item tree and of the poll thread leaves alone among these
search_rest == <<dd_vars, win_vars, item_vars, poll_vars, more>>

dd_rest == <<search_vars, win_vars, item_vars, poll_vars, more>>

win_rest == <<search_vars, l_entry, r_entry, item_vars, poll_vars, more>>

item_rest == <<search_vars, dd_vars, win_vars, poll_vars, more>>

poll_rest == <<search_vars, l_entry, r_entry, win_vars, item_vars, more>>

vars == <<store, entry, before, pc, op, fill_depth, sequential, pv_list,
          data_list, idx, status_list, puts, returned, lookups, result, raised,
          others, ui>>

-----------------------------------------------------------------------------
(* Bounds of the model *)

MaxChildren == 2
MaxFillDepth == 3

-----------------------------------------------------------------------------
(* Entries.  Every node is a record of one shape; `kind` is the runtime     *)
(* type, and an unresolved child is a node of kind "UUID".                  *)

None == <<>>

Ref(id) ==
    [kind |-> "UUID", uuid |-> id, pv_name |-> "", data |-> 0,
     readback |-> None, children |-> <<>>]

Leaf(k, id, pv, d, rb) ==
    [kind |-> k, uuid |-> id, pv_name |-> pv, data |-> d,
     readback |-> rb, children |-> <<>>]

Nest(k, id, cs) ==
    [kind |-> k, uuid |-> id, pv_name |-> "", data |-> 0,
     readback |-> None, children |-> cs]

\* every child is taken for an identifier and fetched
IsUUID_any(e) == TRUE

IsUUID(e) == e.kind = "UUID"

IsNestable(e) == e.kind \in {"Collection", "Snapshot"}

HasData(e) == e.kind \in {"Setpoint", "Readback"}

-----------------------------------------------------------------------------
(* The store.  Snapshots 1, 2, 3 hold identifiers of their children; the    *)
(* leaves are fixed.  Identifier 13 is referenced by Snapshot 12 and absent.*)

SharedReadback == Leaf("Readback", 7, "R", 41, None)

Leaves ==
    (4 :> Leaf("Setpoint", 4, "A", 11, <<Leaf("Readback", 8, "A_RBV", 12, None)>>))
    @@ (5 :> Leaf("Setpoint", 5, "B", 21, None))
    @@ (6 :> Leaf("Setpoint", 6, "C", 31, <<SharedReadback>>))
    @@ (7 :> SharedReadback)
    @@ (10 :> Leaf("Parameter", 10, "P", 0, None))

InjSeqs(S, n) ==
    { s \in UNION { [1..k -> S] : k \in 0..n } :
        \A i, j \in DOMAIN s : i # j => s[i] # s[j] }

RefSeq(ids) == [i \in DOMAIN ids |-> Ref(ids[i])]

Stores ==
    { Leaves
      @@ (1 :> Nest("Snapshot", 1, RefSeq(c1)))
      @@ (2 :> Nest("Snapshot", 2, RefSeq(c2)))
      @@ (3 :> Nest("Snapshot", 3, RefSeq(c3)))
      @@ (9 :> Nest("Collection", 9, <<Ref(10)>>))
      @@ (12 :> Nest("Snapshot", 12, <<Ref(5), Ref(13)>>)) :
        c1 \in InjSeqs({2, 4, 7}, MaxChildren),
        c2 \in InjSeqs({3, 5, 7}, MaxChildren),
        c3 \in InjSeqs({6, 7}, MaxChildren) }

\* the entries a caller starts from
RootIds == {1, 4, 7, 9, 10, 12}

\* the roots whose graph does not depend on the children chosen for the
\* Snapshots 1, 2, 3: they are taken with one store only
FixedRootIds == RootIds \ {1}

PlainStore == CHOOSE st \in Stores : \A n \in {1, 2, 3} : st[n].children = <<>>

\* backend.search(SearchTerm('uuid', 'eq', id)): the list of matches
search(id) == IF id \in DOMAIN store THEN <<store[id]>> ELSE <<>>

\* backend.get_entry(id): the entry, EntryNotFoundError when absent
get_entry(id) ==
    IF id \in DOMAIN store THEN [ok |-> TRUE, entry |-> store[id]]
    ELSE [ok |-> FALSE, entry |-> Ref(id)]

-----------------------------------------------------------------------------
(* Client.fill *)

RECURSIVE fill(_, _), fill_children(_, _)

\* fill(entry, fill_depth): [ok, entry, lookups]; ok is FALSE when the lookup
\* of an identifier found nothing (list(...)[0] raises IndexError)
fill(e, fd) ==
    LET d == IF fd = None THEN None ELSE <<fd[1] - 1>>
    IN  IF d # None /\ d[1] <= 0
        THEN [ok |-> TRUE, entry |-> e, lookups |-> <<>>]
        ELSE IF IsNestable(e)
        THEN LET r == fill_children(e.children, d)
             IN  IF r.ok
                 THEN [ok |-> TRUE,
                       entry |-> [e EXCEPT !.children = r.children],
                       lookups |-> r.lookups]
                 ELSE [ok |-> FALSE, entry |-> e, lookups |-> r.lookups]
        ELSE [ok |-> TRUE, entry |-> e, lookups |-> <<>>]

\* the loop over entry.children building new_children, with the depth d
\* already decremented by the caller
fill_children(cs, d) ==
    IF cs = <<>>
    THEN [ok |-> TRUE, children |-> <<>>, lookups |-> <<>>]
    ELSE LET child == Head(cs)
         IN  IF IsUUID(child)
             THEN LET found == search(child.uuid)
                  IN  IF found = <<>>
                      THEN [ok |-> FALSE, children |-> <<>>,
                            lookups |-> <<child.uuid>>]
                      ELSE LET fc == fill(found[1], d)
                               rest == fill_children(Tail(cs), d)
                           IN  IF ~fc.ok
                               THEN [ok |-> FALSE, children |-> <<>>,
                                     lookups |-> <<child.uuid>> \o fc.lookups]
                               ELSE [ok |-> rest.ok,
                                     children |-> <<fc.entry>> \o rest.children,
                                     lookups |-> <<child.uuid>> \o fc.lookups
                                                 \o rest.lookups]
             ELSE LET rest == fill_children(Tail(cs), d)
                  IN  [ok |-> rest.ok,
                       children |-> <<child>> \o rest.children,
                       lookups |-> rest.lookups]

-----------------------------------------------------------------------------
(* Client._gather_leaves and Client._gather_data *)

Reverse(s) == [i \in 1..Len(s) |-> s[Len(s) + 1 - i]]

\* the children pushed in their stored order: the last child is popped first
PushChildren_unreversed(cs) == cs

\* reversed(entry.children), pushed so that the first child is popped first
PushChildren(cs) == Reverse(cs)

\* no entry counts as seen
AlreadySeen_never(uuid, seen) == FALSE

\* the test `uuid in seen`
AlreadySeen(uuid, seen) == uuid \in seen

RECURSIVE gather_loop(_, _, _, _, _)

\* the while loop of _gather_leaves over the stack q (top = last element);
\* looked and pushed record the backend lookups and the Nestables expanded
gather_loop(q, seen, entries, looked, pushed) ==
    IF Len(q) = 0
    THEN [ok |-> TRUE, entries |-> entries, lookups |-> looked,
          expanded |-> pushed]
    ELSE LET top == q[Len(q)]
             rest == SubSeq(q, 1, Len(q) - 1)
         IN  IF AlreadySeen(top.uuid, seen)
             THEN gather_loop(rest, seen, entries, looked, pushed)
             ELSE LET got == IF IsUUID(top) THEN get_entry(top.uuid)
                             ELSE [ok |-> TRUE, entry |-> top]
                      e == got.entry
                      looked2 == IF IsUUID(top) THEN Append(looked, top.uuid)
                                 ELSE looked
                  IN  IF ~got.ok
                      THEN [ok |-> FALSE, entries |-> entries,
                            lookups |-> looked2, expanded |-> pushed]
                      ELSE IF IsNestable(e)
                      THEN gather_loop(rest \o PushChildren(e.children),
                                       seen \union {e.uuid}, entries, looked2,
                                       Append(pushed, e.uuid))
                      ELSE gather_loop(IF e.readback # None
                                       THEN rest \o e.readback ELSE rest,
                                       seen \union {e.uuid},
                                       Append(entries, e), looked2, pushed)

_gather_leaves(e) == gather_loop(<<e>>, {}, <<>>, <<>>, <<>>)

\* nothing is left out, whatever writable_only says
Omitted_never(e, writable_only) == FALSE

\* whether _gather_data leaves an entry out
Omitted(e, writable_only) == e.kind = "Readback" /\ writable_only

RECURSIVE DataOf(_)
DataOf(es) ==
    IF es = <<>> THEN <<>>
    ELSE (IF HasData(Head(es)) THEN <<Head(es).data>> ELSE <<>>) \o DataOf(Tail(es))

_gather_data(e, writable_only) ==
    LET g == _gather_leaves(e)
        kept == SelectSeq(g.entries, LAMBDA x : ~Omitted(x, writable_only))
    IN  [ok |-> g.ok,
         pv_list |-> [i \in 1..Len(kept) |-> kept[i].pv_name],
         data_list |-> DataOf(kept),
         lookups |-> g.lookups]

-----------------------------------------------------------------------------
\* no search was made
SearchUnused ==
    /\ post = <<>>
    /\ new_search_terms = <<>>

\* nothing is selected for comparison and no signal was emitted
DiffUnused ==
    /\ l_entry = <<>>
    /\ r_entry = <<>>
    /\ emitted = <<>>

\* NavigationPanel.nav_buttons
NavButtons == {"view_snapshots", "browse_pvs", "configure_tags"}

\* the buttons whose text and icon-only property set_expanded sets
PanelButtons == NavButtons \union {"save"}

\* the texts NavigationPanel.__init__ and set_expanded(True) set
ButtonText ==
    [b \in PanelButtons |->
        CASE b = "view_snapshots" -> "View Snapshots"
          [] b = "browse_pvs" -> "Browse PVs"
          [] b = "configure_tags" -> "Configure Tags"
          [] b = "save" -> "Save Snapshot"]

\* the Window as Window.__init__ and NavigationPanel.__init__ leave it
WindowConstructed ==
    /\ current_page = "view_snapshot_page"
    /\ selected = [b \in NavButtons |-> b = "view_snapshots"]
    /\ nav_expanded = TRUE
    /\ text = ButtonText
    /\ icon_only = [b \in PanelButtons |-> FALSE]
    /\ shown = [details |-> <<1>>, main |-> <<>>, comparison |-> <<>>]

\* no EntryItem was made
ItemsUnused ==
    /\ items = <<>>
    /\ root_item = 0
    /\ taken = <<>>
    /\ fetched = 0

\* no poll thread was made
PollUnused ==
    /\ thread_pc = "none"
    /\ running = FALSE
    /\ poll_data = <<>>
    /\ poll_period = 0
    /\ todo = <<>>
    /\ queries = <<>>
    /\ stop_called = FALSE
    /\ passes = 0

\* no _gather_leaves is in progress and _gather_data was not called
GatherUnused ==
    /\ gl_q = <<>>
    /\ gl_seen = {}
    /\ gl_writable_only = FALSE

\* take_snapshot was not called and the snapshot table is empty
TakeUnused ==
    /\ dialog = "none"
    /\ dest_snapshot = None
    /\ listed = <<>>
    /\ slot_log = <<>>

\* no TagsWidget was made
TagsUnused ==
    /\ chips = <<>>
    /\ tag_arg = <<>>

\* no LivePVTableModel was made
LiveUnused ==
    /\ lv_entries = <<>>
    /\ dicts = <<>>
    /\ _data_cache = 0
    /\ threads = <<>>
    /\ _poll_thread = 0
    /\ model_client = 0
    /\ view_client = 0
    /\ live_period = 0

\* no table view was made
ViewUnused ==
    /\ tv_cls = ""
    /\ tv_client = 0
    /\ tv_data = None
    /\ sub_entries = <<>>
    /\ tv_model = FALSE
    /\ tv_entries = <<>>
    /\ tv_alias = FALSE
    /\ tv_raised = FALSE

\* the components modelled last were not used
MoreUnused ==
    /\ GatherUnused
    /\ TakeUnused
    /\ TagsUnused
    /\ LiveUnused
    /\ ViewUnused

\* the state of the search and of the widgets before any of them was used
UiUnused ==
    /\ SearchUnused
    /\ DiffUnused
    /\ WindowConstructed
    /\ ItemsUnused
    /\ PollUnused
    /\ MoreUnused

\* the state of the gatherer, of compare and of snap before any of them ran
OthersUnused ==
    /\ leaves = <<>>
    /\ expanded = <<>>
    /\ entry_r = None
    /\ diffs = <<>>
    /\ store_meta = <<>>
    /\ live = <<>>
    /\ gets = <<>>
    /\ snapshot = None

Init ==
    /\ store \in Stores
    /\ \E r \in RootIds :
         /\ r \in FixedRootIds => store = PlainStore
         /\ entry = store[r]
    /\ before = entry
    /\ pc = "idle"
    /\ UiUnused
    /\ op = "none"
    /\ fill_depth = None
    /\ sequential = FALSE
    /\ pv_list = <<>>
    /\ data_list = <<>>
    /\ idx = 1
    /\ status_list = <<>>
    /\ puts = <<>>
    /\ returned = <<>>
    /\ lookups = <<>>
    /\ result = [none |-> TRUE, statuses |-> <<>>]
    /\ raised = FALSE
    /\ OthersUnused

-----------------------------------------------------------------------------
(* Client.fill as a call *)

FillDepths == {None} \union { <<k>> : k \in 1..MaxFillDepth }

NoResult == [none |-> TRUE, statuses |-> <<>>]

ListResult(sl) == [none |-> FALSE, statuses |-> sl]

\* a failed lookup is swallowed: the call returns as if nothing had happened
Fill_swallows ==
    /\ pc = "idle"
    /\ \E fd \in FillDepths :
         LET r == fill(entry, fd)
         IN  /\ fill_depth' = fd
             /\ entry' = r.entry
             /\ lookups' = r.lookups
    /\ raised' = FALSE
    /\ before' = entry
    /\ op' = "fill"
    /\ result' = NoResult
    /\ puts' = <<>>
    /\ returned' = <<>>
    /\ sequential' = FALSE
    /\ pv_list' = <<>>
    /\ data_list' = <<>>
    /\ idx' = 1
    /\ status_list' = <<>>
    /\ leaves' = <<>>
    /\ expanded' = <<>>
    /\ diffs' = <<>>
    /\ UNCHANGED <<ui, store, pc, entry_r, store_meta, live, gets, snapshot>>

Fill ==
    /\ pc = "idle"
    /\ \E fd \in FillDepths :
         LET r == fill(entry, fd)
         IN  /\ fill_depth' = fd
             /\ entry' = r.entry
             /\ lookups' = r.lookups
             /\ raised' = ~r.ok
    /\ before' = entry
    /\ op' = "fill"
    /\ result' = NoResult
    /\ puts' = <<>>
    /\ returned' = <<>>
    /\ sequential' = FALSE
    /\ pv_list' = <<>>
    /\ data_list' = <<>>
    /\ idx' = 1
    /\ status_list' = <<>>
    /\ leaves' = <<>>
    /\ expanded' = <<>>
    /\ diffs' = <<>>
    /\ UNCHANGED <<ui, store, pc, entry_r, store_meta, live, gets, snapshot>>

-----------------------------------------------------------------------------
(* Client.apply *)

\* ControlLayer.put(address, value): the call as the service sees it; `many`
\* tells the list form from the single-PV form
PutCall(address, value, many) ==
    [address |-> address, value |-> value, many |-> many]

\* a TaskStatus; failed stands for exception() being set
Status(pv, failed) == [pv |-> pv, failed |-> failed]

Min(a, b) == IF a < b THEN a ELSE b

\* no test of the entry's type
Accepted_any(e) == TRUE

\* the isinstance(entry, (Setpoint, Snapshot)) test
Accepted(e) == e.kind \in {"Setpoint", "Snapshot"}

\* the loop goes on whatever the status
Terminates_never(status) == FALSE

\* the test that ends the sequential loop
Terminates(status) == status.failed

\* what the sequential branch returns when a put failed: a bare return
ReturnOnFailure(sl) == NoResult

\* what the sequential branch returns after the loop: the function ends
\* without a return statement
ReturnAfterLoop(sl) == NoResult

\* the names the loop iterates over: zip(pv_list, data_list)
ZipLen == Min(Len(pv_list), Len(data_list))

\* one single-PV put per target instead of one call
BulkCalls_perTarget(pvs, datas) ==
    [i \in 1..Min(Len(pvs), Len(datas)) |-> PutCall(<<pvs[i]>>, <<datas[i]>>, FALSE)]

\* the bulk branch: self.cl.put(pv_list, data_list)
BulkCalls(pvs, datas) == <<PutCall(pvs, datas, TRUE)>>

\* what every apply call does on entry
ApplyBegins(seq) ==
    /\ pc = "idle"
    /\ op' = "apply"
    /\ sequential' = seq
    /\ before' = entry
    /\ fill_depth' = None
    /\ UNCHANGED <<ui, store, entry, others>>

ApplyReject ==
    /\ ~Accepted(entry)
    /\ \E seq \in BOOLEAN : ApplyBegins(seq)
    /\ result' = NoResult
    /\ puts' = <<>>
    /\ returned' = <<>>
    /\ lookups' = <<>>
    /\ raised' = FALSE
    /\ pv_list' = <<>>
    /\ data_list' = <<>>
    /\ idx' = 1
    /\ status_list' = <<>>
    /\ UNCHANGED pc

ApplySetpoint ==
    /\ Accepted(entry)
    /\ entry.kind = "Setpoint"
    /\ \E seq \in BOOLEAN : ApplyBegins(seq)
    /\ \E failed \in BOOLEAN :
         /\ puts' = <<PutCall(<<entry.pv_name>>, <<entry.data>>, FALSE)>>
         /\ returned' = <<Status(entry.pv_name, failed)>>
         /\ result' = ListResult(returned')
    /\ lookups' = <<>>
    /\ raised' = FALSE
    /\ pv_list' = <<>>
    /\ data_list' = <<>>
    /\ idx' = 1
    /\ status_list' = <<>>
    /\ UNCHANGED pc

\* _gather_data met an identifier the backend does not hold
ApplyNotFound ==
    /\ Accepted(entry)
    /\ entry.kind # "Setpoint"
    /\ \E seq \in BOOLEAN : ApplyBegins(seq)
    /\ LET g == _gather_data(entry, TRUE)
       IN  /\ ~g.ok
           /\ lookups' = g.lookups
    /\ raised' = TRUE
    /\ result' = NoResult
    /\ puts' = <<>>
    /\ returned' = <<>>
    /\ pv_list' = <<>>
    /\ data_list' = <<>>
    /\ idx' = 1
    /\ status_list' = <<>>
    /\ UNCHANGED pc

ApplyBulk ==
    /\ Accepted(entry)
    /\ entry.kind # "Setpoint"
    /\ ApplyBegins(FALSE)
    /\ LET g == _gather_data(entry, TRUE)
           n == Min(Len(g.pv_list), Len(g.data_list))
       IN  /\ g.ok
           /\ lookups' = g.lookups
           /\ pv_list' = g.pv_list
           /\ data_list' = g.data_list
           /\ puts' = BulkCalls(g.pv_list, g.data_list)
           /\ \E failed \in [1..n -> BOOLEAN] :
                returned' = [i \in 1..n |-> Status(g.pv_list[i], failed[i])]
           /\ result' = ListResult(returned')
    /\ raised' = FALSE
    /\ idx' = 1
    /\ status_list' = <<>>
    /\ UNCHANGED pc

ApplySeqStart ==
    /\ Accepted(entry)
    /\ entry.kind # "Setpoint"
    /\ ApplyBegins(TRUE)
    /\ LET g == _gather_data(entry, TRUE)
       IN  /\ g.ok
           /\ lookups' = g.lookups
           /\ pv_list' = g.pv_list
           /\ data_list' = g.data_list
    /\ pc' = "seq"
    /\ idx' = 1
    /\ status_list' = <<>>
    /\ puts' = <<>>
    /\ returned' = <<>>
    /\ result' = NoResult
    /\ raised' = FALSE

\* one pass of the loop body: a blocking put, then the test of its status
ApplySeqPut ==
    /\ pc = "seq"
    /\ idx <= ZipLen
    /\ \E failed \in BOOLEAN :
         LET status == Status(pv_list[idx], failed)
         IN  /\ puts' = Append(puts, PutCall(<<pv_list[idx]>>, <<data_list[idx]>>, FALSE))
             /\ returned' = Append(returned, status)
             /\ IF Terminates(status)
                THEN /\ pc' = "idle"
                     /\ result' = ReturnOnFailure(status_list)
                     /\ UNCHANGED <<idx, status_list>>
                ELSE /\ status_list' = Append(status_list, status)
                     /\ idx' = idx + 1
                     /\ UNCHANGED <<pc, result>>
    /\ UNCHANGED <<ui, store, entry, before, op, fill_depth, sequential, pv_list,
                   data_list, lookups, raised, others>>

\* the loop is exhausted
ApplySeqEnd ==
    /\ pc = "seq"
    /\ idx > ZipLen
    /\ pc' = "idle"
    /\ result' = ReturnAfterLoop(status_list)
    /\ UNCHANGED <<ui, store, entry, before, op, fill_depth, sequential, pv_list,
                   data_list, idx, status_list, puts, returned, lookups, raised,
                   others>>

Next ==
    \/ Fill
    \/ ApplyReject
    \/ ApplySetpoint
    \/ ApplyNotFound
    \/ ApplyBulk
    \/ ApplySeqStart
    \/ ApplySeqPut
    \/ ApplySeqEnd

Spec == Init /\ [][Next]_vars

-----------------------------------------------------------------------------
(* Reference definitions the claims are stated with.  They describe the     *)
(* graph, not the algorithm: a recursive expansion of the tree.             *)

RECURSIVE Expand(_), ExpandAll(_)

\* every leaf of the graph under e in pre-order, a leaf's own readback right
\* after it, identifiers resolved through the store, repetitions kept
Expand(e) ==
    IF IsUUID(e)
    THEN IF e.uuid \in DOMAIN store THEN Expand(store[e.uuid]) ELSE <<>>
    ELSE IF IsNestable(e) THEN ExpandAll(e.children)
    ELSE <<e>> \o ExpandAll(e.readback)

ExpandAll(es) == IF es = <<>> THEN <<>> ELSE Expand(Head(es)) \o ExpandAll(Tail(es))

RECURSIVE FirstOccurrences(_, _)

\* s without the elements whose identifier occurred earlier
FirstOccurrences(s, seen) ==
    IF s = <<>> THEN <<>>
    ELSE IF Head(s).uuid \in seen THEN FirstOccurrences(Tail(s), seen)
    ELSE <<Head(s)>> \o FirstOccurrences(Tail(s), seen \union {Head(s).uuid})

\* the (pv, value) pairs of the writable leaves of e, in pre-order
WritableTargets(e) ==
    LET w == SelectSeq(FirstOccurrences(Expand(e), {}),
                       LAMBDA x : x.kind = "Setpoint")
    IN  [i \in 1..Len(w) |-> <<w[i].pv_name, w[i].data>>]

\* the PV names of the Readback leaves of e
ReadbackPVs(e) ==
    LET x == Expand(e)
    IN  { x[i].pv_name : i \in { j \in 1..Len(x) : x[j].kind = "Readback" } }

\* the (pv, value) pairs the service was asked to write, call by call
PairsOf(call) ==
    [i \in 1..Min(Len(call.address), Len(call.value)) |->
        <<call.address[i], call.value[i]>>]

RECURSIVE Flatten(_)
Flatten(ss) == IF ss = <<>> THEN <<>> ELSE Head(ss) \o Flatten(Tail(ss))

PutPairs == Flatten([i \in 1..Len(puts) |-> PairsOf(puts[i])])

IsPrefix(s, t) == Len(s) <= Len(t) /\ s = SubSeq(t, 1, Len(s))

Range(s) == { s[i] : i \in DOMAIN s }

SomeFailed == \E i \in 1..Len(returned) : returned[i].failed

SeqApply == op = "apply" /\ sequential /\ entry.kind = "Snapshot" /\ ~raised

BulkApply == op = "apply" /\ ~sequential /\ entry.kind = "Snapshot" /\ ~raised

RECURSIVE HoldsUUID(_)

\* whether an identifier is left as a child anywhere under e
HoldsUUID(e) ==
    \E i \in 1..Len(e.children) :
        e.children[i].kind = "UUID" \/ HoldsUUID(e.children[i])

RECURSIVE Resolved(_, _)

\* the stored entry e with k levels of its children resolved
Resolved(e, k) ==
    IF k = 0 \/ ~IsNestable(e) THEN e
    ELSE [e EXCEPT !.children =
            [i \in 1..Len(e.children) |->
                IF IsUUID(e.children[i])
                THEN Resolved(store[e.children[i].uuid], k - 1)
                ELSE Resolved(e.children[i], k - 1)]]

-----------------------------------------------------------------------------
(* The claims *)

\* C1: in a sequential apply of a Snapshot, once a put has returned a status
\* whose exception is set, no further put is issued: the loop is left at that
\* put, so a failed status is only ever the last one and one status was
\* returned per put.
C1_NoPutAfterFailure ==
    SeqApply =>
        /\ Len(returned) = Len(puts)
        /\ \A i \in 1..Len(returned) : returned[i].failed => i = Len(puts)
        /\ pc = "seq" => ~SomeFailed

\* a Snapshot of three targets whose second write failed: the call is over
\* after two puts
C1_Witness ==
    /\ SeqApply
    /\ pc = "idle"
    /\ Len(pv_list) = 3
    /\ Len(puts) = 2
    /\ ~returned[1].failed
    /\ returned[2].failed

\* C2: a sequential apply whose k-th write is the first to fail returns the
\* list of the k-1 statuses of the writes that succeeded before it.
C2_PartialStatusesReturned ==
    (SeqApply /\ pc = "idle" /\ SomeFailed) =>
        result = ListResult(SubSeq(returned, 1, Len(returned) - 1))

\* C3: a sequential apply in which every write succeeds returns the list of
\* the statuses, one per value applied, in the order the writes were issued.
C3_AllStatusesReturned ==
    (SeqApply /\ pc = "idle" /\ ~SomeFailed /\ Len(puts) > 0) =>
        result = ListResult(returned)

\* C4: a sequential apply issues its writes in the pre-order of the
\* Snapshot's writable leaves: what has been written is always a prefix of
\* that order, all of it when no write failed; and the apply leaves the graph
\* as it was, so that a second apply works through the same sequence.
C4_SequentialPreOrder ==
    SeqApply =>
        /\ IsPrefix(PutPairs, WritableTargets(entry))
        /\ (pc = "idle" /\ ~SomeFailed) => PutPairs = WritableTargets(entry)
        /\ entry = before

\* three writes done, the first of them to the most deeply nested Setpoint
C4_Witness ==
    /\ SeqApply
    /\ pc = "idle"
    /\ PutPairs = <<<<"C", 31>>, <<"B", 21>>, <<"A", 11>>>>

\* C5: in either mode, no PV of a Readback leaf of the Snapshot (top-level,
\* nested, or attached to a Setpoint) is passed to put.
C5_ReadbacksNeverWritten ==
    (op = "apply" /\ entry.kind = "Snapshot") =>
        \A i \in 1..Len(puts) :
            Range(puts[i].address) \cap ReadbackPVs(entry) = {}

\* a bulk write of a Snapshot that holds a Readback of its own and one
\* attached to a Setpoint
C5_Witness ==
    /\ BulkApply
    /\ {"R", "A_RBV"} \subseteq ReadbackPVs(entry)
    /\ Len(puts) = 1
    /\ Len(puts[1].address) >= 2

\* C6: apply of an entry that is neither a Setpoint nor a Snapshot returns
\* (None) without raising, without a call to the store and without a put.
C6_RejectsOtherEntries ==
    (op = "apply" /\ entry.kind \notin {"Setpoint", "Snapshot"}) =>
        /\ pc = "idle"
        /\ result = NoResult
        /\ ~raised
        /\ lookups = <<>>
        /\ puts = <<>>

C6_Witness == op = "apply" /\ entry.kind = "Collection" /\ Len(entry.children) > 0

C8_NothingToWriteNoPut ==
    (op = "apply" /\ entry.kind = "Snapshot" /\ pc = "idle" /\ ~raised
     /\ WritableTargets(entry) = <<>>) => puts = <<>>

\* C9: after fill with fill_depth None, on a graph whose identifiers are all
\* in the store, no identifier is left as a child anywhere in the graph.
C9_FillLeavesNoIdentifier ==
    (op = "fill" /\ fill_depth = None /\ ~raised) => ~HoldsUUID(entry)

\* C10: fill with fill_depth k, on an entry as the store holds it, resolves
\* exactly k levels of children.
C10_FillDepthLevels ==
    (op = "fill" /\ fill_depth # None /\ ~raised
     /\ before = store[before.uuid]) =>
        entry = Resolved(before, fill_depth[1])

-----------------------------------------------------------------------------
(* The resolver and the leaf gatherer on graphs with shared subtrees and a  *)
(* dangling identifier.                                                      *)

\* stores in which Snapshot 3 and the leaves 6, 7 have several parents and
\* Snapshot 12, which references the absent identifier 13, can be nested
GraphStores ==
    { Leaves
      @@ (1 :> Nest("Snapshot", 1, RefSeq(c1)))
      @@ (2 :> Nest("Snapshot", 2, RefSeq(c2)))
      @@ (3 :> Nest("Snapshot", 3, RefSeq(c3)))
      @@ (9 :> Nest("Collection", 9, <<Ref(10)>>))
      @@ (12 :> Nest("Snapshot", 12, <<Ref(5), Ref(13)>>)) :
        c1 \in InjSeqs({2, 3, 4, 12}, MaxChildren),
        c2 \in InjSeqs({3, 6, 7}, MaxChildren),
        c3 \in InjSeqs({6, 7}, MaxChildren) }

\* what no call of apply has touched
ApplyUnused ==
    /\ sequential = FALSE
    /\ pv_list = <<>>
    /\ data_list = <<>>
    /\ idx = 1
    /\ status_list = <<>>
    /\ puts = <<>>
    /\ returned = <<>>
    /\ result = NoResult

\* the caller holds Snapshot 1 as stored, or only its identifier
InitGraph ==
    /\ store \in GraphStores
    /\ entry \in {store[1], Ref(1)}
    /\ before = entry
    /\ pc = "idle"
    /\ UiUnused
    /\ op = "none"
    /\ fill_depth = None
    /\ lookups = <<>>
    /\ raised = FALSE
    /\ ApplyUnused
    /\ OthersUnused

\* a call of Client._gather_leaves(entry)
GatherLeaves ==
    /\ pc = "idle"
    /\ LET g == _gather_leaves(entry)
       IN  /\ leaves' = g.entries
           /\ expanded' = g.expanded
           /\ lookups' = g.lookups
           /\ raised' = ~g.ok
    /\ op' = "gather"
    /\ before' = entry
    /\ fill_depth' = None
    /\ UNCHANGED <<ui, store, entry, pc, sequential, pv_list, data_list, idx,
                   status_list, puts, returned, result, entry_r, diffs,
                   store_meta, live, gets, snapshot>>

NextGraph ==
    \/ Fill
    \/ GatherLeaves

SpecGraph == InitGraph /\ [][NextGraph]_vars

Uuids(es) == [i \in 1..Len(es) |-> es[i].uuid]

NoRepeat(s) == \A i, j \in 1..Len(s) : i # j => s[i] # s[j]

\* C11: fill of a graph without unresolved identifiers leaves the graph as
\* it was and asks the store nothing; and after any fill that returned, the
\* same fill once more changes nothing and asks the store nothing.
C11_FillOfResolvedIsNoOp ==
    /\ (op = "fill" /\ ~HoldsUUID(before)) =>
          (entry = before /\ lookups = <<>> /\ ~raised)
    /\ (op = "fill" /\ ~raised) =>
          fill(entry, fill_depth) = [ok |-> TRUE, entry |-> entry, lookups |-> <<>>]

\* a fill of a Snapshot resolved down to the leaves through two levels
C11_Witness ==
    /\ op = "fill"
    /\ ~HoldsUUID(before)
    /\ \E i \in 1..Len(before.children) :
         /\ IsNestable(before.children[i])
         /\ Len(before.children[i].children) > 0

\* C12: a fill raises exactly when it asked the store for an identifier the
\* store does not hold (that lookup is then its last), and the graph of a
\* fill that raised is as it was: no children list was replaced.
C12_MissingIdentifierRaises ==
    op = "fill" =>
        /\ raised <=> (\E i \in 1..Len(lookups) : lookups[i] \notin DOMAIN store)
        /\ raised => (lookups[Len(lookups)] \notin DOMAIN store /\ entry = before)

\* the absent identifier was met two levels down, after another child had
\* been fetched
C12_Witness ==
    /\ op = "fill"
    /\ raised
    /\ Len(lookups) >= 3
    /\ lookups[1] # 12

\* C13: _gather_leaves emits no entry twice (by identifier) and pushes the
\* children of no Nestable twice, whatever the number of parents.
C13_GatherEmitsOnce ==
    op = "gather" => (NoRepeat(Uuids(leaves)) /\ NoRepeat(expanded))

\* Snapshot 3 is a child of 1 and of 2, and a leaf of 3 is also a child of 2
C13_Witness ==
    /\ op = "gather"
    /\ ~raised
    /\ Uuids(store[1].children) = <<2, 3>>
    /\ 3 \in Range(Uuids(store[2].children))
    /\ Range(Uuids(store[2].children)) \cap Range(Uuids(store[3].children)) # {}
    /\ Len(leaves) >= 2

\* C14: _gather_leaves returns the leaves in the pre-order of the graph, each
\* at its first occurrence, and a leaf's own readback that was not emitted
\* before is the element right after the leaf.
C14_GatherPreOrder ==
    (op = "gather" /\ ~raised) =>
        /\ leaves = FirstOccurrences(Expand(entry), {})
        /\ \A i \in 1..Len(leaves) :
             (/\ leaves[i].readback # None
              /\ \A j \in 1..i : leaves[j].uuid # leaves[i].readback[1].uuid)
             => (i < Len(leaves) /\ leaves[i + 1] = leaves[i].readback[1])

\* a partly resolved graph: the Setpoint nested under 2 and 3 comes before
\* the Setpoint that is a direct child, each followed by its readback
C14_Witness ==
    /\ op = "gather"
    /\ HoldsUUID(entry)
    /\ \E i \in 1..Len(entry.children) : IsNestable(entry.children[i])
    /\ Uuids(leaves) = <<6, 7, 4, 8>>

-----------------------------------------------------------------------------
(* Client.snap *)

MaxParams == 2
MaxMeta == 1

\* EpicsData(data=None)
NoData == -1

ParamNames == <<"P1", "P2", "P3">>
ReadbackNames == <<"R1", "R2", "R3">>
MetaNames == <<"M1", "M2">>

\* the value each PV has in the control system when it can be read
LiveData ==
    ("P1" :> 100) @@ ("P2" :> 5) @@ ("P3" :> 7)
    @@ ("R1" :> 99) @@ ("R2" :> 4) @@ ("R3" :> 6)
    @@ ("M1" :> 50) @@ ("M2" :> 60)

\* a Parameter as the store holds it; its readback is a Parameter of its own
Param(id, pv, ro, rb) ==
    [kind |-> "Parameter", uuid |-> id, pv_name |-> pv, read_only |-> ro,
     readback |-> rb]

ParamOf(i, ro, has_rb) ==
    Param(20 + i, ParamNames[i], ro,
          IF has_rb THEN <<Param(30 + i, ReadbackNames[i], TRUE, None)>>
          ELSE None)

\* stores of n Parameters, each read-only or writable, with or without a
\* readback, beside a Collection that is no Parameter
SnapStores ==
    UNION { { [id \in { 20 + i : i \in 1..n } |->
                  ParamOf(id - 20, ro[id - 20], rb[id - 20])]
              @@ (9 :> Nest("Collection", 9, <<>>)) :
                ro \in [1..n -> BOOLEAN], rb \in [1..n -> BOOLEAN] } :
            n \in 0..MaxParams }

MetaLists ==
    { [j \in 1..m |-> Param(40 + j, MetaNames[j], TRUE, None)] : m \in 0..MaxMeta }

\* a Snapshot; snap fills children and meta_pvs
SnapshotOf(cs, ms) ==
    [kind |-> "Snapshot", uuid |-> 0, children |-> cs, meta_pvs |-> ms]

\* what the service answers for one PV: an EpicsData, or something else
EpicsData(d) == [epics |-> TRUE, data |-> d]

Unreadable == [epics |-> FALSE, data |-> -2]

RECURSIVE OfKind(_, _, _)

\* self.search(("entry_type", "eq", kind)): the store's entries of that
\* kind, by ascending key
OfKind(st, ids, kind) ==
    IF ids = {} THEN <<>>
    ELSE LET m == CHOOSE x \in ids : \A y \in ids : x <= y
         IN  (IF st[m].kind = kind THEN <<st[m]>> ELSE <<>>)
             \o OfKind(st, ids \ {m}, kind)

\* the value is used as it came
_value_or_default_unchecked(value) == value

\* _value_or_default: anything that is no EpicsData becomes EpicsData(None)
_value_or_default(value) == IF ~value.epics THEN EpicsData(NoData) ELSE value

\* Readback.from_parameter / Setpoint.from_parameter: a new entry for the
\* Parameter's PV
FromParameter(kind, pv, edata, readback) ==
    Leaf(kind, 0, pv.pv_name, edata.data, readback)

\* every Parameter gives a Setpoint
NewEntry_alwaysSetpoint(pv, edata, readback) ==
    FromParameter("Setpoint", pv, edata, readback)

\* the entry added for a Parameter: a Readback when it is read-only, else a
\* Setpoint that takes the readback
NewEntry(pv, edata, readback) ==
    IF pv.read_only
    THEN FromParameter("Readback", pv, edata, None)
    ELSE FromParameter("Setpoint", pv, edata, readback)

RECURSIVE RemoveFirst(_, _)

\* list.remove(x)
RemoveFirst(s, x) ==
    IF s = <<>> THEN <<>>
    ELSE IF Head(s) = x THEN Tail(s)
    ELSE <<Head(s)>> \o RemoveFirst(Tail(s), x)

\* {pv.pv_name: value for pv, value in zip(all_pvs, values)}
DictOf(names, values) ==
    [n \in Range(names) |->
        values[CHOOSE i \in 1..Len(names) :
                 names[i] = n /\ \A j \in 1..Len(names) : names[j] = n => j <= i]]

\* one get per PV instead of one call
GetCalls_perPV(names) == [i \in 1..Len(names) |-> <<names[i]>>]

\* self.cl.get([pv.pv_name for pv in all_pvs])
GetCalls(names) == <<names>>

RECURSIVE snap_params(_, _, _)

\* the loop over pvs; pool is readback_pvs
snap_params(pvs, data, pool) ==
    IF pvs = <<>> THEN [children |-> <<>>, pool |-> pool]
    ELSE LET pv == Head(pvs)
             has_rb == pv.readback # None
             readback ==
                 IF has_rb
                 THEN <<FromParameter("Readback", pv.readback[1],
                          _value_or_default(data[pv.readback[1].pv_name]), None)>>
                 ELSE None
             pool2 == IF has_rb THEN RemoveFirst(pool, pv.readback[1]) ELSE pool
             new_entry == NewEntry(pv, _value_or_default(data[pv.pv_name]), readback)
             rest == snap_params(Tail(pvs), data, pool2)
         IN  [children |-> <<new_entry>> \o rest.children, pool |-> rest.pool]

\* the loops over the readbacks left in the pool and over the meta PVs
snap_readbacks(pvs, data) ==
    [i \in 1..Len(pvs) |->
        FromParameter("Readback", pvs[i], _value_or_default(data[pvs[i].pv_name]), None)]

\* the PVs snap reads: pvs + readback_pvs + meta_pvs
SnapTargets ==
    LET pvs == OfKind(store, DOMAIN store, "Parameter")
        with_rb == SelectSeq(pvs, LAMBDA p : p.readback # None)
    IN  [pvs |-> pvs,
         readback_pvs |-> [i \in 1..Len(with_rb) |-> with_rb[i].readback[1]],
         all_pvs |-> pvs \o [i \in 1..Len(with_rb) |-> with_rb[i].readback[1]]
                     \o store_meta]

NamesOf(pvs) == [i \in 1..Len(pvs) |-> pvs[i].pv_name]

\* the caller passes no dest, or a Snapshot that already has a child
InitSnap ==
    /\ store \in SnapStores
    /\ store_meta \in MetaLists
    /\ entry \in {None, SnapshotOf(<<Leaf("Setpoint", 0, "OLD", 1, None)>>, <<>>)}
    /\ before = entry
    /\ pc = "idle"
    /\ UiUnused
    /\ op = "none"
    /\ fill_depth = None
    /\ lookups = <<>>
    /\ raised = FALSE
    /\ ApplyUnused
    /\ leaves = <<>>
    /\ expanded = <<>>
    /\ entry_r = None
    /\ diffs = <<>>
    /\ live = <<>>
    /\ gets = <<>>
    /\ snapshot = None

\* a call of Client.snap(dest=entry); the service answers each PV with its
\* value or with something that is no EpicsData
Snap ==
    /\ pc = "idle"
    /\ snapshot = None
    /\ LET t == SnapTargets
           names == NamesOf(t.all_pvs)
       IN  \E readable \in SUBSET Range(names) :
             LET values == [i \in 1..Len(names) |->
                              IF names[i] \in readable
                              THEN EpicsData(LiveData[names[i]]) ELSE Unreadable]
                 data == DictOf(names, values)
                 dest == IF entry # None THEN entry ELSE SnapshotOf(<<>>, <<>>)
                 main == snap_params(t.pvs, data, t.readback_pvs)
             IN  /\ gets' = GetCalls(names)
                 /\ live' = data
                 /\ snapshot' =
                      [dest EXCEPT
                         !.children = @ \o main.children
                                        \o snap_readbacks(main.pool, data),
                         !.meta_pvs = @ \o snap_readbacks(store_meta, data)]
    /\ entry' = IF entry # None THEN snapshot' ELSE None
    /\ before' = entry
    /\ op' = "snap"
    /\ raised' = FALSE
    /\ UNCHANGED <<ui, store, store_meta, pc, fill_depth, lookups, sequential,
                   pv_list, data_list, idx, status_list, puts, returned, result,
                   leaves, expanded, entry_r, diffs>>

NextSnap == Snap

SpecSnap == InitSnap /\ [][NextSnap]_vars

\* the Parameters of the store
StoredParams == { store[id] : id \in { x \in DOMAIN store : store[x].kind = "Parameter" } }

\* what a leaf for PV n has to carry after the read
ValueRead(n) == IF live[n].epics THEN LiveData[n] ELSE NoData

\* the children the last snap added to its destination
AddedChildren ==
    SubSeq(snapshot.children,
           (IF before = None THEN 0 ELSE Len(before.children)) + 1,
           Len(snapshot.children))

RECURSIVE LeafCount(_)

\* the leaves among entries es, readbacks embedded in Setpoints included
LeafCount(es) ==
    IF es = <<>> THEN 0
    ELSE 1 + Len(Head(es).readback) + LeafCount(Tail(es))

\* C15: one snap makes exactly one get call, and that call names every
\* Parameter PV, every associated readback PV and every meta PV.
C15_SnapIsOneGet ==
    op = "snap" =>
        /\ Len(gets) = 1
        /\ Range(gets[1]) =
              { p.pv_name : p \in StoredParams }
              \union { p.readback[1].pv_name :
                         p \in { q \in StoredParams : q.readback # None } }
              \union { store_meta[j].pv_name : j \in 1..Len(store_meta) }

C15_Witness ==
    /\ op = "snap"
    /\ Len(gets) = 1
    /\ {"P1", "R1", "P2", "R2", "M1"} \subseteq Range(gets[1])

\* C16: a snap into a fresh Snapshot yields as many leaves (children,
\* readbacks embedded in Setpoints, meta_pvs) as there are Parameters plus
\* distinct associated readbacks plus meta PVs.
C16_SnapLeafCount ==
    (op = "snap" /\ before = None) =>
        LeafCount(snapshot.children) + Len(snapshot.meta_pvs) =
            Cardinality(StoredParams)
            + Cardinality({ p.readback : p \in { q \in StoredParams : q.readback # None } })
            + Len(store_meta)

ParamsInOrder == OfKind(store, DOMAIN store, "Parameter")

\* the child the data model asks for a Parameter
ExpectedChild(p) ==
    IF p.read_only
    THEN Leaf("Readback", 0, p.pv_name, ValueRead(p.pv_name), None)
    ELSE Leaf("Setpoint", 0, p.pv_name, ValueRead(p.pv_name),
              IF p.readback = None THEN None
              ELSE <<Leaf("Readback", 0, p.readback[1].pv_name,
                          ValueRead(p.readback[1].pv_name), None)>>)

\* C18: the children snap adds follow the order of the Parameters: a
\* Setpoint with the value read, embedding a Readback with the readback PV's
\* value, for a writable Parameter; a Readback with the value read for a
\* read-only Parameter.
C18_SnapChildren ==
    op = "snap" =>
        AddedChildren = [i \in 1..Len(ParamsInOrder) |-> ExpectedChild(ParamsInOrder[i])]

\* P1 writable with readback R1, P2 read-only, read as 100, 99 and 5
C18_Witness ==
    /\ op = "snap"
    /\ before = None
    /\ snapshot.children =
         << Leaf("Setpoint", 0, "P1", 100, <<Leaf("Readback", 0, "R1", 99, None)>>),
            Leaf("Readback", 0, "P2", 5, None) >>

-----------------------------------------------------------------------------
(* Client.compare.  The caller holds two entries, entry (entry_l) and       *)
(* entry_r; a call of fill between two comparisons leaves the left one      *)
(* partly resolved.                                                          *)

\* every pair of entries is taken to be of one type
SameType_always(l, r) == TRUE

\* type(entry_l) is type(entry_r)
SameType(l, r) == l.kind = r.kind

DiffItem(path, original, new) ==
    [path |-> path, original |-> original, new |-> new]

\* a step of a DiffItem's path: a field, and for a list the position in it
Step(field, index) == [field |-> field, index |-> index]

\* the difference of one scalar field
FieldDiff(path, field, a, b) ==
    IF a = b THEN <<>> ELSE <<DiffItem(Append(path, Step(field, 0)), a, b)>>

RECURSIVE walk_find_diff(_, _, _), walk_list(_, _, _, _, _)

\* walk_find_diff(original, new, curr_path): the DiffItems, in field order
walk_find_diff(l, r, path) ==
    IF l.kind # r.kind
    THEN <<DiffItem(path, l, r)>>
    ELSE FieldDiff(path, "uuid", l.uuid, r.uuid)
         \o FieldDiff(path, "pv_name", l.pv_name, r.pv_name)
         \o FieldDiff(path, "data", l.data, r.data)
         \o walk_list(l.readback, r.readback, path, "readback", 1)
         \o walk_list(l.children, r.children, path, "children", 1)

\* two lists compared by position from position i on; the difference of
\* their lengths is a DiffItem of its own
walk_list(ls, rs, path, field, i) ==
    IF i > Len(ls) \/ i > Len(rs)
    THEN IF Len(ls) = Len(rs) THEN <<>>
         ELSE <<DiffItem(Append(path, Step(field, 0)), ls, rs)>>
    ELSE walk_find_diff(ls[i], rs[i], Append(path, Step(field, i)))
         \o walk_list(ls, rs, path, field, i + 1)

\* the roots a caller compares
LeftIds == {1, 4, 9, 12}

RightIds == {1, 4, 9}

\* the caller holds two entries as stored
InitCompare ==
    /\ store \in Stores
    /\ \E l \in LeftIds, r \in RightIds :
         /\ l # 1 => store = PlainStore
         /\ entry = store[l]
         /\ entry_r = store[r]
    /\ before = entry
    /\ pc = "idle"
    /\ UiUnused
    /\ op = "none"
    /\ fill_depth = None
    /\ lookups = <<>>
    /\ raised = FALSE
    /\ ApplyUnused
    /\ leaves = <<>>
    /\ expanded = <<>>
    /\ diffs = <<>>
    /\ store_meta = <<>>
    /\ live = <<>>
    /\ gets = <<>>
    /\ snapshot = None

\* a call of Client.compare(entry, entry_r)
Compare ==
    /\ pc = "idle"
    /\ IF ~SameType(entry, entry_r)
       THEN /\ diffs' = <<DiffItem(<<>>, entry, entry_r)>>
            /\ lookups' = <<>>
            /\ raised' = FALSE
            /\ UNCHANGED <<entry, entry_r>>
       ELSE LET fl == fill(entry, None)
                fr == fill(entry_r, None)
            IN  IF ~fl.ok
                THEN /\ diffs' = <<>>
                     /\ lookups' = fl.lookups
                     /\ raised' = TRUE
                     /\ UNCHANGED <<entry, entry_r>>
                ELSE /\ entry' = fl.entry
                     /\ entry_r' = fr.entry
                     /\ lookups' = fl.lookups \o fr.lookups
                     /\ raised' = ~fr.ok
                     /\ diffs' = IF fr.ok
                                 THEN walk_find_diff(fl.entry, fr.entry, <<>>)
                                 ELSE <<>>
    /\ op' = "compare"
    /\ before' = entry
    /\ fill_depth' = None
    /\ UNCHANGED <<ui, store, pc, sequential, pv_list, data_list, idx,
                   status_list, puts, returned, result, leaves, expanded,
                   store_meta, live, gets, snapshot>>

NextCompare ==
    \/ Fill
    \/ Compare

SpecCompare == InitCompare /\ [][NextCompare]_vars

RECURSIVE FullyResolved(_)

\* the entry e with every identifier under it replaced by the stored entry
FullyResolved(e) ==
    IF IsUUID(e) THEN FullyResolved(store[e.uuid])
    ELSE [e EXCEPT !.children =
            [i \in 1..Len(e.children) |-> FullyResolved(e.children[i])]]

\* C19: a call of compare on two entries whose runtime types differ returns
\* exactly one DiffItem, with the empty path and the two entries as original
\* and new value, looks nothing up in the store and leaves both entries as
\* they were.
C19_TypeMismatchShortCircuits ==
    [][(op' = "compare" /\ entry.kind # entry_r.kind) =>
          /\ diffs' = <<DiffItem(<<>>, entry, entry_r)>>
          /\ lookups' = <<>>
          /\ ~raised'
          /\ entry' = entry
          /\ entry_r' = entry_r]_vars

\* a comparison of a Snapshot that holds identifiers with an entry of another
\* type has returned its one DiffItem
C19_Witness ==
    /\ op = "compare"
    /\ entry.kind # entry_r.kind
    /\ HoldsUUID(entry)
    /\ Len(diffs) = 1
    /\ diffs[1].path = <<>>

\* C20: a call of compare on two entries that are copies of one another,
\* whichever of their children are held as identifiers and whichever as the
\* resolved entries, returns an empty list of DiffItems.
C20_CopiesHaveNoDiff ==
    [][(/\ op' = "compare"
        /\ ~raised'
        /\ entry.kind = entry_r.kind
        /\ FullyResolved(entry) = FullyResolved(entry_r)) =>
          diffs' = <<>>]_vars

-----------------------------------------------------------------------------
\* C30: within one call of fill no identifier is asked of the store more than
\* once, also when it is a child in several places of the graph.
C30_FillLooksUpOnce ==
    op = "fill" => NoRepeat(lookups)

-----------------------------------------------------------------------------
(* Client.search.  Numbers are fixed point: a target and the tolerances of  *)
(* an 'isclose' term are given in tenths, the bounds computed from them and *)
(* the values of the other terms are in hundredths, so that                 *)
(* target * rel_tol is exact.                                                *)

MaxTerms == 2

\* what no call of the client or of the gatherer has touched
ClientUnused ==
    /\ store = PlainStore
    /\ entry = store[4]
    /\ before = entry
    /\ pc = "idle"
    /\ fill_depth = None
    /\ lookups = <<>>
    /\ raised = FALSE
    /\ ApplyUnused
    /\ OthersUnused

\* the variables of the client other than the name of the last call
client_vars == <<store, entry, before, pc, fill_depth, sequential, pv_list,
                 data_list, idx, status_list, puts, returned, lookups, result,
                 raised, others>>

\* a search term; is_term is FALSE for a plain tuple (attr, operator, value);
\* the value is held as a tuple, <<number>> or <<target, rel_tol, abs_tol>>
Term(attr, operator, value, is_term) ==
    [attr |-> attr, operator |-> operator, value |-> value,
     is_term |-> is_term]

\* SearchTerm(attr, operator, value)
SearchTerm(attr, operator, value) == Term(attr, operator, value, TRUE)

\* tenths as hundredths
Hundredths(x) == 10 * x

\* the lower bound with the absolute tolerance added instead of subtracted
lower_abs_added(target, rel_tol, abs_tol) ==
    Hundredths(target) - target * rel_tol + Hundredths(abs_tol)

\* lower = target - target * rel_tol - abs_tol
lower(target, rel_tol, abs_tol) ==
    Hundredths(target) - target * rel_tol - Hundredths(abs_tol)

\* upper = target + target * rel_tol + abs_tol
upper(target, rel_tol, abs_tol) ==
    Hundredths(target) + target * rel_tol + Hundredths(abs_tol)

\* the terms one term of post contributes to new_search_terms
convert_term(t) ==
    LET search_term == IF t.is_term THEN t
                       ELSE SearchTerm(t.attr, t.operator, t.value)
    IN  IF search_term.operator = "isclose"
        THEN LET target == search_term.value[1]
                 rel_tol == search_term.value[2]
                 abs_tol == search_term.value[3]
             IN  << SearchTerm(search_term.attr, "gt",
                               <<lower(target, rel_tol, abs_tol)>>),
                    SearchTerm(search_term.attr, "lt",
                               <<upper(target, rel_tol, abs_tol)>>) >>
        ELSE <<search_term>>

RECURSIVE convert_terms(_)

\* the loop of Client.search over post
convert_terms(ts) ==
    IF ts = <<>> THEN <<>>
    ELSE convert_term(Head(ts)) \o convert_terms(Tail(ts))

\* whether the backend takes the value v of the term's attribute as a match
Matches(t, v) ==
    CASE t.operator = "eq" -> v = t.value[1]
      [] t.operator = "gt" -> v > t.value[1]
      [] t.operator = "lt" -> v < t.value[1]
      [] OTHER -> FALSE

SearchAttrs == {"data", "abs_tolerance"}

\* (target, rel_tol, abs_tol) in tenths: 10.0, -2.0, 0.0; 0, 0.1; 0, 0.5
CloseValues == { <<t, r, a>> : t \in {100, -20, 0}, r \in {0, 1}, a \in {0, 5} }

\* the terms a caller hands to search
SearchTerms ==
    { Term(a, "isclose", v, TRUE) : a \in SearchAttrs, v \in CloseValues }
    \union { Term(a, o, <<850>>, k) :
               a \in SearchAttrs, o \in {"eq", "gt"}, k \in BOOLEAN }

InitSearch ==
    /\ ClientUnused
    /\ DiffUnused
    /\ WindowConstructed
    /\ ItemsUnused
    /\ PollUnused
    /\ op = "none"
    /\ post \in UNION { [1..n -> SearchTerms] : n \in 0..MaxTerms }
    /\ new_search_terms = <<>>
    /\ MoreUnused

\* a call of Client.search(*post)
Search ==
    /\ op = "none"
    /\ new_search_terms' = convert_terms(post)
    /\ op' = "search"
    /\ UNCHANGED <<client_vars, post, search_rest>>

NextSearch == Search

SpecSearch == InitSearch /\ [][NextSearch]_vars

\* attr, operator and value of a term
Content(t) == <<t.attr, t.operator, t.value>>

\* the number of terms handed to the backend for the first n terms of post
Offset(n) ==
    n + Cardinality({ i \in 1..n : post[i].operator = "isclose" })

\* C21: search hands the backend, for each 'isclose' term, exactly the two
\* terms (attr, 'gt', target - target*rel_tol - abs_tol) and (attr, 'lt',
\* target + target*rel_tol + abs_tol) in the place of the term, and every
\* other term as it was given, the order being kept; (10.0, 0.1, 0.5) gives
\* the bounds 8.5 and 11.5.
C21_IscloseBecomesTwoRangeTerms ==
    op = "search" =>
        /\ Len(new_search_terms) = Offset(Len(post))
        /\ \A i \in 1..Len(post) :
             LET k == Offset(i - 1) + 1
                 t == post[i]
             IN  IF t.operator = "isclose"
                 THEN /\ Content(new_search_terms[k]) =
                           << t.attr, "gt",
                              << Hundredths(t.value[1])
                                 - t.value[1] * t.value[2]
                                 - Hundredths(t.value[3]) >> >>
                      /\ Content(new_search_terms[k + 1]) =
                           << t.attr, "lt",
                              << Hundredths(t.value[1])
                                 + t.value[1] * t.value[2]
                                 + Hundredths(t.value[3]) >> >>
                 ELSE Content(new_search_terms[k]) = Content(t)
        /\ \A i \in 1..Len(post) :
             Content(post[i]) = <<"data", "isclose", <<100, 1, 5>>>> =>
                /\ new_search_terms[Offset(i - 1) + 1].value = <<850>>
                /\ new_search_terms[Offset(i - 1) + 2].value = <<1150>>

\* an 'isclose' term between two other terms was converted
C21_Witness ==
    /\ op = "search"
    /\ Len(post) = MaxTerms
    /\ \E i \in 1..Len(post) :
         Content(post[i]) = <<"data", "isclose", <<100, 1, 5>>>>
    /\ \E i \in 1..Len(post) : post[i].operator # "isclose"
    /\ Len(new_search_terms) = MaxTerms + 1

\* C22: the two terms search builds for an 'isclose' term are matched by
\* every value of the closed interval [lower, upper], the two bounds
\* included (the target itself when both tolerances are 0).
C22_BoundsAreClose ==
    (op = "search" /\ Len(post) = 1 /\ post[1].operator = "isclose") =>
        LET lo == lower(post[1].value[1], post[1].value[2], post[1].value[3])
            hi == upper(post[1].value[1], post[1].value[2], post[1].value[3])
        IN  \A v \in lo..hi :
              \A k \in 1..Len(new_search_terms) :
                 Matches(new_search_terms[k], v)

-----------------------------------------------------------------------------
(* DiffDispatcher (widgets/views.py): the singleton that holds up to two    *)
(* entries for comparison and emits comparison_ready.                       *)

\* the entries the context menus hand to the dispatcher
DiffEntries == { PlainStore[r] : r \in DOMAIN PlainStore }

\* what select_for_compare may be handed that is no Entry
NonEntries == {Ref(2)}

\* isinstance(entry, Entry)
IsEntry(e) == e \in DiffEntries

\* a left entry counts as selected whatever l_entry holds
LeftSelected_always == TRUE

\* self.l_entry is not None
LeftSelected == l_entry # None

InitDiff ==
    /\ ClientUnused
    /\ op = "none"
    /\ SearchUnused
    /\ DiffUnused
    /\ WindowConstructed
    /\ ItemsUnused
    /\ PollUnused
    /\ MoreUnused

\* DiffDispatcher.select_for_compare(e)
SelectForCompare ==
    /\ \E e \in DiffEntries \union NonEntries :
         l_entry' = IF IsEntry(e) THEN <<e>> ELSE l_entry
    /\ emitted' = <<>>
    /\ op' = "select_for_compare"
    /\ UNCHANGED <<client_vars, r_entry, dd_rest>>

\* DiffDispatcher.compare_with_selected(e)
CompareWithSelected ==
    /\ \E e \in DiffEntries :
         IF LeftSelected
         THEN /\ r_entry' = <<e>>
              /\ emitted' = <<"comparison_ready">>
         ELSE /\ r_entry' = r_entry
              /\ emitted' = <<>>
    /\ op' = "compare_with_selected"
    /\ UNCHANGED <<client_vars, l_entry, dd_rest>>

\* DiffDispatcher.reset()
ResetDiff ==
    /\ l_entry' = None
    /\ r_entry' = None
    /\ emitted' = <<>>
    /\ op' = "reset"
    /\ UNCHANGED <<client_vars, dd_rest>>

NextDiff ==
    \/ SelectForCompare
    \/ CompareWithSelected
    \/ ResetDiff

SpecDiff == InitDiff /\ [][NextDiff]_vars

\* C28: a call on the dispatcher emits comparison_ready exactly when it is
\* compare_with_selected and a left entry was selected; both entries are then
\* set; compare_with_selected without a left entry leaves both entries as
\* they were and emits nothing; and r_entry is never set while l_entry is
\* None.
C28_ComparisonReady ==
    [][/\ ("comparison_ready" \in Range(emitted')) <=>
             (op' = "compare_with_selected" /\ l_entry # None)
       /\ Len(emitted') <= 1
       /\ emitted' # <<>> => (l_entry' # None /\ r_entry' # None)
       /\ (op' = "compare_with_selected" /\ l_entry = None) =>
             (l_entry' = l_entry /\ r_entry' = r_entry /\ emitted' = <<>>)
       /\ l_entry' = None => r_entry' = None]_vars

\* a Snapshot was compared with a selected Setpoint
C28_Witness ==
    /\ op = "compare_with_selected"
    /\ emitted = <<"comparison_ready">>
    /\ l_entry = <<PlainStore[4]>>
    /\ r_entry = <<PlainStore[1]>>

-----------------------------------------------------------------------------
(* Window and NavigationPanel (widgets/window.py).  The pages are named by  *)
(* the attribute of Window that holds them, the Snapshots by their uuid.    *)

\* the Snapshots a table row or a signal hands to the Window
WindowSnapshots == {1, 2, 3}

\* only the button is set, the others keep their property
set_nav_button_selected_only(nav_button) ==
    [selected EXCEPT ![nav_button] = TRUE]

\* NavigationPanel.set_nav_button_selected(nav_button): the new properties
set_nav_button_selected(nav_button) ==
    [button \in NavButtons |-> button = nav_button]

\* the save button is left as it was when the panel collapses
CollapsedLook_navOnly ==
    [text |-> [b \in PanelButtons |-> IF b = "save" THEN text[b] ELSE ""],
     icon_only |-> [b \in PanelButtons |->
                       IF b = "save" THEN icon_only[b] ELSE TRUE]]

\* set_expanded, branch self.expanded = False: texts and icon-only
CollapsedLook ==
    [text |-> [b \in PanelButtons |-> ""],
     icon_only |-> [b \in PanelButtons |-> TRUE]]

\* set_expanded, branch self.expanded = True: texts and icon-only
ExpandedLook ==
    [text |-> ButtonText,
     icon_only |-> [b \in PanelButtons |-> FALSE]]

InitWindow ==
    /\ ClientUnused
    /\ op = "none"
    /\ SearchUnused
    /\ DiffUnused
    /\ WindowConstructed
    /\ ItemsUnused
    /\ PollUnused
    /\ MoreUnused

\* open_view_snapshot_page, open_pv_browser_page, open_configure_page: the
\* slot of a nav button's click (and of the details page's back signal)
OpenNavPage(page, button) ==
    /\ IF current_page # page
       THEN /\ current_page' = page
            /\ selected' = set_nav_button_selected(button)
       ELSE UNCHANGED <<current_page, selected>>
    /\ emitted' = <<>>
    /\ UNCHANGED <<client_vars, nav_expanded, text, icon_only, shown,
                   win_rest>>

OpenViewSnapshotPage ==
    /\ OpenNavPage("view_snapshot_page", "view_snapshots")
    /\ op' = "open_view_snapshot_page"

OpenPVBrowserPage ==
    /\ OpenNavPage("pv_browser_page", "browse_pvs")
    /\ op' = "open_pv_browser_page"

OpenConfigurePage ==
    /\ OpenNavPage("configure_page", "configure_tags")
    /\ op' = "open_configure_page"

\* Window.open_snapshot(snapshot), snapshot being a Snapshot or None
OpenSnapshot ==
    /\ \E snap \in {None} \union { <<u>> : u \in WindowSnapshots } :
         shown' = IF snap # None THEN [shown EXCEPT !.details = snap]
                  ELSE shown
    /\ current_page' = "snapshot_details_page"
    /\ emitted' = <<>>
    /\ op' = "open_snapshot"
    /\ UNCHANGED <<client_vars, selected, nav_expanded, text, icon_only,
                   win_rest>>

\* Window.open_comparison_page(main_snapshot, comp_snapshot)
OpenComparisonPage ==
    /\ \E m, k \in WindowSnapshots :
         shown' = [shown EXCEPT !.main = <<m>>, !.comparison = <<k>>]
    /\ current_page' = "comparison_page"
    /\ emitted' = <<>>
    /\ op' = "open_comparison_page"
    /\ UNCHANGED <<client_vars, selected, nav_expanded, text, icon_only,
                   win_rest>>

\* the body of NavigationPanel.set_expanded(value)
set_expanded(value) ==
    /\ IF nav_expanded # value
       THEN LET look == IF value THEN ExpandedLook ELSE CollapsedLook
            IN  /\ nav_expanded' = value
                /\ text' = look.text
                /\ icon_only' = look.icon_only
                /\ emitted' = << <<"sigExpandedChanged", value>> >>
       ELSE /\ emitted' = <<>>
            /\ UNCHANGED <<nav_expanded, text, icon_only>>
    /\ UNCHANGED <<client_vars, current_page, selected, shown, win_rest>>

\* NavigationPanel.set_expanded(value)
SetExpanded ==
    /\ \E value \in BOOLEAN : set_expanded(value)
    /\ op' = "set_expanded"

\* NavigationPanel.toggle_expanded()
ToggleExpanded ==
    /\ set_expanded(~nav_expanded)
    /\ op' = "toggle_expanded"

NextWindow ==
    \/ OpenViewSnapshotPage
    \/ OpenPVBrowserPage
    \/ OpenConfigurePage
    \/ OpenSnapshot
    \/ OpenComparisonPage
    \/ SetExpanded
    \/ ToggleExpanded

SpecWindow == InitWindow /\ [][NextWindow]_vars

\* the nav button that belongs to a page
ButtonOf(page) ==
    CASE page = "view_snapshot_page" -> "view_snapshots"
      [] page = "pv_browser_page" -> "browse_pvs"
      [] page = "configure_page" -> "configure_tags"

\* C26: at every moment exactly one nav button has selected = True, and when
\* the current page is the view-snapshots, the PV-browser or the configure
\* page, it is the button of that page.
C26_OneNavButtonSelected ==
    /\ Cardinality({ b \in NavButtons : selected[b] }) = 1
    /\ current_page \in {"view_snapshot_page", "pv_browser_page",
                         "configure_page"} =>
          selected[ButtonOf(current_page)]

\* the PV browser was opened from the comparison page
C26_Witness ==
    /\ op = "open_pv_browser_page"
    /\ current_page = "pv_browser_page"
    /\ selected["browse_pvs"]
    /\ shown.main # None

\* C27: every nav button and the save button has icon-only = (not expanded)
\* and an empty text exactly when the panel is collapsed, the texts of the
\* expanded panel being those of construction (so that two toggles restore
\* them); a set_expanded or toggle that leaves expanded as it was changes no
\* text and no property and emits nothing, and one that changes it emits
\* sigExpandedChanged once.
C27_ExpandedLook ==
    /\ [](/\ \A b \in PanelButtons :
               /\ icon_only[b] = ~nav_expanded
               /\ (text[b] = "") <=> ~nav_expanded
          /\ nav_expanded => text = ButtonText)
    /\ [][op' \in {"set_expanded", "toggle_expanded"} =>
            IF nav_expanded' = nav_expanded
            THEN /\ text' = text
                 /\ icon_only' = icon_only
                 /\ emitted' = <<>>
                 /\ op' = "set_expanded"
            ELSE emitted' = << <<"sigExpandedChanged", nav_expanded'>> >>]_vars

\* the panel was collapsed
C27_Witness ==
    /\ op = "toggle_expanded"
    /\ ~nav_expanded
    /\ text["save"] = ""
    /\ icon_only["save"]

-----------------------------------------------------------------------------
(* _PVPollThread (widgets/views.py): the thread's run loop, one action per   *)
(* step that another thread can interleave with, and stop() called from the *)
(* GUI thread.  An absent value (None) is 0.                                 *)

MaxPVs == 2
MaxPasses == 2

PVNames == <<"A", "B", "C">>

\* the keys of a data dictionary, in order
Keys(d) == [i \in 1..Len(d) |-> d[i][1]]

\* what ControlLayer.get does: it raises, returns a CommunicationError, or
\* returns a value
GetOutcomes ==
    { [kind |-> k, value |-> 0] : k \in {"raises", "error"} }
    \union { [kind |-> "value", value |-> v] : v \in {1, 2} }

\* the data dictionary after _update_data(pv_name) got val
Updated(d, pv_name, val) ==
    [i \in 1..Len(d) |->
        IF d[i][1] = pv_name THEN <<pv_name, val.value>> ELSE d[i]]

\* whether _update_data changes the entry of pv_name
Changes(d, pv_name, val) ==
    /\ val.kind = "value"
    /\ \E i \in 1..Len(d) : d[i][1] = pv_name /\ d[i][2] # val.value

\* the loop never takes itself for a single shot
SingleShot_never == FALSE

\* self.poll_period <= 0.0
SingleShot == poll_period <= 0

\* a thread as _PVPollThread.__init__ leaves it
InitPoll ==
    /\ ClientUnused
    /\ op = "none"
    /\ SearchUnused
    /\ DiffUnused
    /\ WindowConstructed
    /\ ItemsUnused
    /\ thread_pc = "created"
    /\ running = FALSE
    /\ \E n \in 0..MaxPVs :
         poll_data \in { [i \in 1..n |-> <<PVNames[f[i]], 0>>] :
                           f \in { g \in [1..n -> 1..Len(PVNames)] :
                                     \A i, j \in 1..n : i # j => g[i] # g[j] } }
    /\ poll_period \in {-1, 0, 1}
    /\ todo = <<>>
    /\ queries = <<>>
    /\ stop_called = FALSE
    /\ passes = 0
    /\ MoreUnused

\* QThread.start()
StartThread ==
    /\ thread_pc = "created"
    /\ thread_pc' = "started"
    /\ op' = "start"
    /\ UNCHANGED <<client_vars, running, poll_data, poll_period, todo, queries,
                   stop_called, passes, emitted, poll_rest>>

\* _PVPollThread.stop(), from the GUI thread
StopThread ==
    /\ thread_pc # "exited"
    /\ running' = FALSE
    /\ stop_called' = TRUE
    /\ op' = "stop"
    /\ UNCHANGED <<client_vars, thread_pc, poll_data, poll_period, todo,
                   queries, passes, emitted, poll_rest>>

\* run(): self.running = True; self.data_ready.emit()
RunBegin ==
    /\ thread_pc = "started"
    /\ running' = TRUE
    /\ emitted' = << <<"data_ready">> >>
    /\ thread_pc' = "while"
    /\ UNCHANGED <<client_vars, op, poll_data, poll_period, todo, queries,
                   stop_called, passes, poll_rest>>

\* run(): while self.running, and the start of the pass over self.data
WhileTest ==
    /\ thread_pc = "while"
    /\ IF running
       THEN /\ passes < MaxPasses
            /\ passes' = passes + 1
            /\ todo' = Keys(poll_data)
            /\ thread_pc' = "for"
       ELSE /\ thread_pc' = "exited"
            /\ UNCHANGED <<passes, todo>>
    /\ UNCHANGED <<client_vars, op, running, poll_data, poll_period, queries,
                   stop_called, emitted, poll_rest>>

\* run(): the next pv_name of the pass and _update_data(pv_name)
ForNext ==
    /\ thread_pc = "for"
    /\ IF todo = <<>>
       THEN /\ thread_pc' = "after"
            /\ UNCHANGED <<todo, queries, poll_data, emitted>>
       ELSE /\ todo' = Tail(todo)
            /\ queries' = Append(queries, Head(todo))
            /\ \E val \in GetOutcomes :
                 IF Changes(poll_data, Head(todo), val)
                 THEN /\ emitted' = << <<"data_changed", Head(todo)>> >>
                      /\ poll_data' = Updated(poll_data, Head(todo), val)
                 ELSE /\ emitted' = <<>>
                      /\ poll_data' = poll_data
            /\ thread_pc' = "check"
    /\ UNCHANGED <<client_vars, op, running, poll_period, stop_called, passes,
                   poll_rest>>

\* run(): if not self.running: break
ForCheck ==
    /\ thread_pc = "check"
    /\ thread_pc' = IF running THEN "for" ELSE "after"
    /\ UNCHANGED <<client_vars, op, running, poll_data, poll_period, todo,
                   queries, stop_called, passes, emitted, poll_rest>>

\* run(): the single-shot break, or the sleep before the next pass
AfterPass ==
    /\ thread_pc = "after"
    /\ thread_pc' = IF SingleShot THEN "exited" ELSE "while"
    /\ UNCHANGED <<client_vars, op, running, poll_data, poll_period, todo,
                   queries, stop_called, passes, emitted, poll_rest>>

\* the steps of the thread
ThreadStep ==
    \/ RunBegin
    \/ WhileTest
    \/ ForNext
    \/ ForCheck
    \/ AfterPass

NextPoll ==
    \/ StartThread
    \/ StopThread
    \/ ThreadStep

SpecPoll == InitPoll /\ [][NextPoll]_vars

\* a started thread is scheduled again and again
FairSpecPoll == SpecPoll /\ WF_vars(ThreadStep)

\* C29: a thread with poll_period <= 0 asks for no PV twice; once started it
\* exits whether or not stop() is called; and when it has exited without
\* stop() having been called it has asked for each PV of its data once, in
\* the order of the keys.
C29_SingleShotExits ==
    /\ [](poll_period <= 0 => NoRepeat(queries))
    /\ []((poll_period <= 0 /\ thread_pc = "exited" /\ ~stop_called) =>
              queries = Keys(poll_data))
    /\ ((poll_period <= 0 /\ thread_pc = "started") ~> thread_pc = "exited")

\* a single-shot thread over two PVs has exited by itself
C29_Witness ==
    /\ poll_period <= 0
    /\ thread_pc = "exited"
    /\ ~stop_called
    /\ Len(queries) = MaxPVs

-----------------------------------------------------------------------------
(* EntryItem (widgets/views.py).  The items live in `items`, numbered from  *)
(* 1 in the order they were made; 0 stands for None as a parent.  Rows are  *)
(* counted from 0 as in the code.                                            *)

MaxItems == 3
MaxRows == 2

\* EntryItem(data) without a tree_parent; `own` tells that _data was
\* assigned by fill_uuids and is not the object held by the parent's entry
Item(d) == [data |-> d, parent |-> 0, row |-> 0, children |-> <<>>,
            own |-> FALSE]

\* EntryItem.addChild(child) on the item numbered p
addChild(h, p, child) ==
    LET h1 == [h EXCEPT ![child].parent = p,
                        ![child].row = Len(h[p].children)]
    IN  [h1 EXCEPT ![p].children = Append(h1[p].children, child)]

\* EntryItem.takeChildren(): the items after it (it returns h[p].children)
takeChildren(h, p) ==
    LET children == h[p].children
        h1 == [h EXCEPT ![p].children = <<>>]
    IN  [i \in DOMAIN h |->
            IF i \in Range(children) THEN [h1[i] EXCEPT !.parent = 0]
            ELSE h1[i]]

RECURSIVE addChildren(_, _, _)

\* for rchild in remaining_children: self.addChild(rchild)
addChildren(h, p, cs) ==
    IF cs = <<>> THEN h
    ELSE addChildren(addChild(h, p, Head(cs)), p, Tail(cs))

\* remaining_children = self.takeChildren(), then addChild of each
renumber(h, p) == addChildren(takeChildren(h, p), p, h[p].children)

\* the position of the first occurrence of x in s, 0 when there is none
IndexOf(s, x) ==
    IF x \in Range(s) THEN CHOOSE i \in 1..Len(s) :
                              s[i] = x /\ \A j \in 1..(i - 1) : s[j] # x
    ELSE 0

\* s without its element at position i
Without(s, i) == [j \in 1..(Len(s) - 1) |-> IF j < i THEN s[j] ELSE s[j + 1]]

\* s with x put in front of position i (i = Len(s) + 1 appends)
InsertAt(s, i, x) ==
    [j \in 1..(Len(s) + 1) |->
        IF j < i THEN s[j] ELSE IF j = i THEN x ELSE s[j - 1]]

\* EntryItem.removeChild(child): [items, taken]
removeChild(h, p, child) ==
    LET i == IndexOf(h[p].children, child)
    IN  IF i = 0 THEN [items |-> h, taken |-> <<>>]
        ELSE LET h1 == [h EXCEPT ![p].children = Without(h[p].children, i)]
                 h2 == [h1 EXCEPT ![child].parent = 0]
             IN  [items |-> renumber(h2, p), taken |-> <<child>>]

\* EntryItem.replaceChild(old_child, new_child): [ok, items, taken]; ok is
\* FALSE for the IndexError
replaceChild(h, p, old_child, new_child) ==
    LET i == IndexOf(h[p].children, old_child)
    IN  IF i = 0 THEN [ok |-> FALSE, items |-> h, taken |-> <<>>]
        ELSE LET h1 == [h EXCEPT ![p].children[i] = new_child]
                 h2 == [h1 EXCEPT ![new_child].parent = p,
                                  ![new_child].row = i - 1]
                 h3 == [h2 EXCEPT ![old_child].parent = 0]
             IN  [ok |-> TRUE, items |-> h3, taken |-> <<old_child>>]

\* EntryItem.takeChild(idx), idx as list.pop takes it: [ok, items, taken]
takeChild(h, p, index) ==
    LET n == Len(h[p].children)
        i == IF index < 0 THEN index + n + 1 ELSE index + 1
    IN  IF i < 1 \/ i > n THEN [ok |-> FALSE, items |-> h, taken |-> <<>>]
        ELSE LET child == h[p].children[i]
                 h1 == [h EXCEPT ![p].children = Without(h[p].children, i)]
                 h2 == [h1 EXCEPT ![child].parent = 0]
             IN  [ok |-> TRUE, items |-> renumber(h2, p),
                  taken |-> <<child>>]

\* EntryItem.insertChild(index, child), idx as list.insert takes it
insertChild(h, p, index, child) ==
    LET n == Len(h[p].children)
        k == IF index < 0 THEN index + n ELSE index
        i == IF k < 0 THEN 1 ELSE IF k > n THEN n + 1 ELSE k + 1
        h1 == [h EXCEPT ![p].children = InsertAt(h[p].children, i, child)]
    IN  renumber(h1, p)

\* the items a caller holds: each made by EntryItem(data) with no parent; no
\* item is made a child of itself
InitItems ==
    /\ ClientUnused
    /\ op = "none"
    /\ SearchUnused
    /\ DiffUnused
    /\ WindowConstructed
    /\ PollUnused
    /\ items = [i \in 1..MaxItems |-> Item(PlainStore[5])]
    /\ root_item = 1
    /\ taken = <<>>
    /\ fetched = 0
    /\ MoreUnused

ItemCalled(name) ==
    /\ op' = name
    /\ raised' = FALSE
    /\ UNCHANGED <<store, entry, before, pc, fill_depth, sequential, pv_list,
                   data_list, idx, status_list, puts, returned, lookups,
                   result, others, root_item, fetched, item_rest>>

AddChild ==
    /\ \E p, child \in DOMAIN items :
         /\ child # p
         /\ Len(items[p].children) < MaxRows
         /\ items' = addChild(items, p, child)
    /\ taken' = <<>>
    /\ ItemCalled("addChild")

InsertChild ==
    /\ \E p, child \in DOMAIN items, i \in -1..MaxRows :
         /\ child # p
         /\ Len(items[p].children) < MaxRows
         /\ items' = insertChild(items, p, i, child)
    /\ taken' = <<>>
    /\ ItemCalled("insertChild")

RemoveChild ==
    /\ \E p, child \in DOMAIN items :
         LET r == removeChild(items, p, child)
         IN  items' = r.items /\ taken' = r.taken
    /\ ItemCalled("removeChild")

ReplaceChild ==
    /\ \E p, old_child, new_child \in DOMAIN items :
         LET r == replaceChild(items, p, old_child, new_child)
         IN  /\ new_child # p
             /\ r.ok
             /\ items' = r.items
             /\ taken' = r.taken
    /\ ItemCalled("replaceChild")

TakeChild ==
    /\ \E p \in DOMAIN items, i \in -1..MaxRows :
         LET r == takeChild(items, p, i)
         IN  r.ok /\ items' = r.items /\ taken' = r.taken
    /\ ItemCalled("takeChild")

TakeChildren ==
    /\ \E p \in DOMAIN items :
         /\ items' = takeChildren(items, p)
         /\ taken' = items[p].children
    /\ ItemCalled("takeChildren")

NextItems ==
    \/ AddChild
    \/ InsertChild
    \/ RemoveChild
    \/ ReplaceChild
    \/ TakeChild
    \/ TakeChildren

SpecItems == InitItems /\ [][NextItems]_vars

\* C23: for every item, child(i).row() = i and child(i).parent() is the item
\* for every i below childCount(), and every item the last call took,
\* removed or replaced out has no parent.
C23_RowsContiguous ==
    /\ \A p \in DOMAIN items :
         \A i \in 1..Len(items[p].children) :
            /\ items[items[p].children[i]].row = i - 1
            /\ items[items[p].children[i]].parent = p
    /\ \A i \in 1..Len(taken) : items[taken[i]].parent = 0

-----------------------------------------------------------------------------
(* RootTree (widgets/views.py): the lazy tree of EntryItems over an entry   *)
(* graph.  An item whose _data is the object held in the children of its    *)
(* parent's entry (own = FALSE) shares every change of that entry with the  *)
(* parent's entry; an item whose _data was fetched by fill_uuids does not.  *)

\* stores in which Snapshot 1 holds Snapshot 2 and a leaf, two levels deep
TreeStores ==
    { Leaves
      @@ (1 :> Nest("Snapshot", 1, RefSeq(c1)))
      @@ (2 :> Nest("Snapshot", 2, RefSeq(c2)))
      @@ (3 :> Nest("Snapshot", 3, RefSeq(c3)))
      @@ (9 :> Nest("Collection", 9, <<Ref(10)>>))
      @@ (12 :> Nest("Snapshot", 12, <<Ref(5), Ref(13)>>)) :
        c1 \in InjSeqs({2, 4}, MaxChildren),
        c2 \in InjSeqs({3, 5}, MaxChildren),
        c3 \in InjSeqs({6}, MaxChildren) }

\* the entry e with its child at position i replaced by the stored entry
WithChildResolved(e, i) ==
    [e EXCEPT !.children[i] = store[e.children[i].uuid]]

\* the base entries a RootTree is made for: Snapshot 1 as stored, or with
\* one of its children already resolved
BaseEntries ==
    {store[1]}
    \union { WithChildResolved(store[1], i) : i \in 1..Len(store[1].children) }

RECURSIVE build_tree(_, _, _), build_children(_, _, _)

\* build_tree(entry, parent): the items after it; the item it returns is the
\* one numbered Len(h) + 1
build_tree(h, e, parent) ==
    LET item == Len(h) + 1
        h0 == Append(h, Item(e))
        h1 == IF parent # 0 THEN addChild(h0, parent, item) ELSE h0
    IN  IF IsNestable(e) THEN build_children(h1, e.children, item) ELSE h1

\* for child in entry.children: build_tree(child, parent=item)
build_children(h, cs, parent) ==
    IF cs = <<>> THEN h
    ELSE build_children(build_tree(h, Head(cs), parent), Tail(cs), parent)

RECURSIVE Shared(_, _)

\* the items after the entry of item n changed: the entries of the
\* ancestors that hold the same object hold the change too
Shared(h, n) ==
    LET p == h[n].parent
    IN  IF p = 0 \/ h[n].own THEN h
        ELSE Shared([h EXCEPT ![p].data.children[h[n].row + 1] = h[n].data],
                    p)

\* no entry is taken to need a fill
NeedsFill_never(d) == FALSE

\* any(isinstance(child, UUID) for child in self._data.children)
NeedsFill(d) == \E i \in 1..Len(d.children) : IsUUID(d.children[i])

\* any(isinstance(e._data, UUID) for e in self._children)
\*   or len(self._data.children) != self.childCount()
NeedsRebuild(h, n) ==
    \/ \E i \in 1..Len(h[n].children) : IsUUID(h[h[n].children[i]].data)
    \/ Len(h[n].data.children) # Len(h[n].children)

\* the child items are kept and the new ones added after them
rebuild_keeping(h, n) ==
    build_children(h, h[n].data.children, n)

\* self.takeChildren(); for child in self._data.children: build_tree(...)
rebuild(h, n) ==
    build_children(takeChildren(h, n), h[n].data.children, n)

\* EntryItem.fill_uuids(client) with the default fill_depth = 2:
\* [ok, items, taken, lookups]; ok is FALSE when a lookup found nothing
fill_uuids(h, n) ==
    LET d0 == h[n].data
        found == IF IsUUID(d0) THEN search(d0.uuid) ELSE <<d0>>
        looked == IF IsUUID(d0) THEN <<d0.uuid>> ELSE <<>>
    IN  IF found = <<>>
        THEN [ok |-> FALSE, items |-> h, taken |-> <<>>, lookups |-> looked]
        ELSE
        LET d1 == found[1]
            h1 == [h EXCEPT ![n].data = d1, ![n].own = h[n].own \/ IsUUID(d0)]
        IN  IF ~IsNestable(d1)
            THEN [ok |-> TRUE, items |-> h1, taken |-> <<>>,
                  lookups |-> looked]
            ELSE
            LET r == IF NeedsFill(d1) THEN fill(d1, <<2>>)
                     ELSE [ok |-> TRUE, entry |-> d1, lookups |-> <<>>]
                h2 == Shared([h1 EXCEPT ![n].data = r.entry], n)
            IN  IF ~r.ok
                THEN [ok |-> FALSE, items |-> h1, taken |-> <<>>,
                      lookups |-> looked \o r.lookups]
                ELSE IF NeedsRebuild(h2, n)
                THEN [ok |-> TRUE, items |-> rebuild(h2, n),
                      taken |-> h2[n].children,
                      lookups |-> looked \o r.lookups]
                ELSE [ok |-> TRUE, items |-> h2, taken |-> <<>>,
                      lookups |-> looked \o r.lookups]

\* RootTree.canFetchMore(parent), parent being the index of item n
canFetchMore(h, n) ==
    /\ n # 0
    /\ IsNestable(h[n].data)
    /\ \/ \E i \in 1..Len(h[n].data.children) : IsUUID(h[n].data.children[i])
       \/ \E i \in 1..Len(h[n].children) : IsUUID(h[h[n].children[i]].data)

RECURSIVE Under(_, _)

\* the items of the tree under item n, n included
Under(h, n) ==
    {n} \union UNION { Under(h, h[n].children[i]) :
                         i \in 1..Len(h[n].children) }

\* a client and a base entry, no RootTree yet
InitTree ==
    /\ store \in TreeStores
    /\ entry \in BaseEntries
    /\ before = entry
    /\ pc = "idle"
    /\ op = "none"
    /\ fill_depth = None
    /\ lookups = <<>>
    /\ raised = FALSE
    /\ ApplyUnused
    /\ OthersUnused
    /\ UiUnused

\* what a call on the RootTree leaves alone
TreeCalled(name) ==
    /\ op' = name
    /\ before' = entry
    /\ fill_depth' = None
    /\ UNCHANGED <<store, pc, sequential, pv_list, data_list, idx,
                   status_list, puts, returned, result, others, search_vars,
                   l_entry, r_entry, win_vars, poll_vars, more>>

\* RootTree.__init__(base_entry=entry, client=client)
NewRootTree ==
    /\ root_item = 0
    /\ LET h == build_tree(items, entry, 0)
           root == Len(items) + 1
           r == fill_uuids(h, root)
       IN  /\ root_item' = root
           /\ items' = r.items
           /\ taken' = r.taken
           /\ lookups' = r.lookups
           /\ raised' = ~r.ok
           /\ entry' = r.items[root].data
    /\ fetched' = 0
    /\ emitted' = <<>>
    /\ TreeCalled("RootTree")

\* RootTree.fetchMore(parent), parent being the index of an item of the tree
FetchMore ==
    /\ root_item # 0
    /\ \E n \in Under(items, root_item) :
         LET r == fill_uuids(items, n)
         IN  /\ fetched' = n
             /\ items' = r.items
             /\ taken' = r.taken
             /\ lookups' = r.lookups
             /\ raised' = ~r.ok
             /\ entry' = r.items[root_item].data
             /\ emitted' = IF r.ok
                           THEN << <<"rowsInserted", 0,
                                     Len(r.items[n].children)>> >>
                           ELSE <<>>
    /\ UNCHANGED root_item
    /\ TreeCalled("fetchMore")

NextTree ==
    \/ NewRootTree
    \/ FetchMore

SpecTree == InitTree /\ [][NextTree]_vars

\* some child of the entry of item n, in the entry's children or in the
\* child items, is an identifier that was not resolved
SomeChildUnresolved(n) ==
    /\ items[n].data.kind \in {"Collection", "Snapshot"}
    /\ "UUID" \in { items[n].data.children[i].kind :
                      i \in 1..Len(items[n].data.children) }
                  \union { items[items[n].children[i]].data.kind :
                             i \in 1..Len(items[n].children) }

\* C24: canFetchMore(node) is True exactly while some child of the node's
\* Nestable entry, in the entry's children or in the child items, is an
\* unresolved identifier; after a fetchMore(node) that found every entry
\* canFetchMore(node) is False, and a further fetchMore(node) changes nothing
C24_CanFetchMore ==
    /\ [](root_item # 0 =>
            \A n \in Under(items, root_item) :
                canFetchMore(items, n) <=> SomeChildUnresolved(n))
    /\ [](op = "fetchMore" /\ ~raised => ~canFetchMore(items, fetched))
    /\ [][(op = "fetchMore" /\ ~raised /\ op' = "fetchMore"
             /\ fetched' = fetched)
          => items' = items /\ entry' = entry /\ taken' = <<>>]_vars

\* a fetchMore for an item under the root built its child items anew
C24_Witness ==
    /\ op = "fetchMore"
    /\ ~raised
    /\ fetched # root_item
    /\ taken # <<>>
    /\ lookups # <<>>
    /\ ~canFetchMore(items, fetched)

\* the item the last call of fill_uuids was made on
Filled == IF op = "RootTree" THEN root_item ELSE fetched

\* the items in a list of items
ItemsOf(s) == { s[i] : i \in 1..Len(s) }

\* the last call of fill_uuids, made for a RootTree, found a mix of resolved
\* child items and stand-ins under its item
MixedTaken ==
    /\ op \in {"RootTree", "fetchMore"}
    /\ ~raised
    /\ \E i \in ItemsOf(taken) : items[i].data.kind = "UUID"
    /\ \E i \in ItemsOf(taken) : items[i].data.kind # "UUID"

\* C25 (as stated): fill_uuids on a node whose child items are a mix of
\* resolved items and stand-ins keeps the resolved child items, the same
\* items as before, as children of the node and takes out only the stand-ins
C25_ResolvedItemsPreserved ==
    MixedTaken => \A i \in ItemsOf(taken) : items[i].data.kind = "UUID"

\* C25 (amended): fill_uuids on a node whose child items are a mix of
\* resolved items and stand-ins takes out every child item and builds new
\* ones, one for each child of the node's filled entry in its order; a child
\* the entry already held resolved stays the same entry
C25_AllChildItemsRebuilt ==
    MixedTaken =>
        LET n == Filled
            kids == items[n].children
        IN  /\ \A i \in ItemsOf(taken) : items[i].parent = 0
            /\ ItemsOf(kids) \cap ItemsOf(taken) = {}
            /\ Len(kids) = Len(items[n].data.children)
            /\ Len(kids) = Len(taken)
            /\ \A r \in 1..Len(kids) :
                 /\ items[kids[r]].data = items[n].data.children[r]
                 /\ items[kids[r]].parent = n
                 /\ items[kids[r]].row = r - 1
                 /\ (items[taken[r]].data.kind # "UUID"
                       /\ ~items[taken[r]].own)
                    => items[kids[r]].data = items[taken[r]].data

\* fill_uuids was called on an item with a resolved child item that had
\* child items of its own, and with a stand-in
C25_Witness ==
    /\ MixedTaken
    /\ \E i \in ItemsOf(taken) :
         /\ items[i].data.kind # "UUID"
         /\ items[i].children # <<>>

-----------------------------------------------------------------------------
(* Client._gather_data on graphs that mix Parameter, Setpoint and Readback  *)
(* leaves, with either value of writable_only.                              *)

\* stores in which Snapshot 1 and Snapshot 2 reach the Parameter 10, directly
\* or through Collection 9, next to Setpoints and Readbacks
GatherDataStores ==
    { Leaves
      @@ (1 :> Nest("Snapshot", 1, RefSeq(c1)))
      @@ (2 :> Nest("Snapshot", 2, RefSeq(c2)))
      @@ (3 :> Nest("Snapshot", 3, <<>>))
      @@ (9 :> Nest("Collection", 9, <<Ref(10)>>))
      @@ (12 :> Nest("Snapshot", 12, <<Ref(5), Ref(13)>>)) :
        c1 \in InjSeqs({2, 4, 9, 10}, MaxChildren),
        c2 \in InjSeqs({5, 7, 10}, MaxChildren) }

\* the caller holds Snapshot 1 as stored, or only its identifier
InitGatherData ==
    /\ store \in GatherDataStores
    /\ entry \in {store[1], Ref(1)}
    /\ before = entry
    /\ pc = "idle"
    /\ op = "none"
    /\ fill_depth = None
    /\ lookups = <<>>
    /\ raised = FALSE
    /\ ApplyUnused
    /\ OthersUnused
    /\ UiUnused

\* a call of Client._gather_data(entry, writable_only)
GatherData ==
    \E w \in BOOLEAN :
        LET g == _gather_data(entry, w)
        IN  /\ gl_writable_only' = w
            /\ pv_list' = g.pv_list
            /\ data_list' = g.data_list
            /\ leaves' = _gather_leaves(entry).entries
            /\ lookups' = g.lookups
            /\ raised' = ~g.ok
            /\ op' = "_gather_data"
            /\ before' = entry
            /\ UNCHANGED <<store, entry, pc, fill_depth, sequential, idx,
                           status_list, puts, returned, result, expanded,
                           entry_r, diffs, store_meta, live, gets, snapshot,
                           search_vars, dd_vars, win_vars, item_vars,
                           poll_vars, gl_q, gl_seen, gather_rest>>

NextGatherData == GatherData

SpecGatherData == InitGatherData /\ [][NextGatherData]_vars

\* the leaves of the last _gather_data that its result is about: all of
\* them, or all but the Readbacks
LeavesKept ==
    SelectSeq(leaves,
              LAMBDA x : ~(x.kind = "Readback" /\ gl_writable_only))

\* C38: the two lists returned by _gather_data have the same length and
\* position i of pv_list and of data_list belong to the same leaf, whatever
\* leaves are reachable and whatever writable_only is
C38_ListsAligned ==
    (op = "_gather_data" /\ ~raised) =>
        /\ Len(pv_list) = Len(data_list)
        /\ Len(pv_list) = Len(LeavesKept)
        /\ \A i \in 1..Len(pv_list) :
             /\ pv_list[i] = LeavesKept[i].pv_name
             /\ data_list[i] = LeavesKept[i].data

-----------------------------------------------------------------------------
(* Client._gather_leaves, one iteration of its while loop at a time, on      *)
(* stores whose identifier references may form a cycle.                      *)

MaxWork == 32

\* stores in which Snapshot 2 can hold Snapshot 1 or itself, and Snapshot 3
\* can hold Snapshot 1 or Snapshot 12 with its absent identifier 13
CyclicStores ==
    { Leaves
      @@ (1 :> Nest("Snapshot", 1, RefSeq(c1)))
      @@ (2 :> Nest("Snapshot", 2, RefSeq(c2)))
      @@ (3 :> Nest("Snapshot", 3, RefSeq(c3)))
      @@ (9 :> Nest("Collection", 9, <<Ref(10)>>))
      @@ (12 :> Nest("Snapshot", 12, <<Ref(5), Ref(13)>>)) :
        c1 \in InjSeqs({2, 4, 7}, MaxChildren),
        c2 \in InjSeqs({1, 2, 3, 5}, MaxChildren),
        c3 \in InjSeqs({1, 6, 12}, MaxChildren) }

\* the caller holds Snapshot 1 as stored, or only its identifier
InitLeaves ==
    /\ store \in CyclicStores
    /\ entry \in {store[1], Ref(1)}
    /\ before = entry
    /\ pc = "idle"
    /\ op = "none"
    /\ fill_depth = None
    /\ lookups = <<>>
    /\ raised = FALSE
    /\ ApplyUnused
    /\ OthersUnused
    /\ UiUnused

\* what a step of _gather_leaves leaves alone
LeavesFrame ==
    UNCHANGED <<store, entry, fill_depth, sequential, pv_list, data_list,
                idx, status_list, puts, returned, result, entry_r, diffs,
                store_meta, live, gets, snapshot, search_vars, dd_vars,
                win_vars, item_vars, poll_vars, gl_writable_only,
                gather_rest>>

\* the work the loop has done and has before it
Work == Len(gl_q) + Len(expanded) + Len(leaves) + Len(lookups)

\* _gather_leaves(entry) is called: entries = [], seen = set(), q = [entry]
LeavesBegin ==
    /\ pc = "idle"
    /\ op = "none"
    /\ pc' = "while"
    /\ op' = "_gather_leaves"
    /\ before' = entry
    /\ gl_q' = <<entry>>
    /\ gl_seen' = {}
    /\ leaves' = <<>>
    /\ expanded' = <<>>
    /\ lookups' = <<>>
    /\ raised' = FALSE
    /\ LeavesFrame

\* one iteration of  while len(q) > 0
LeavesIteration ==
    /\ pc = "while"
    /\ Len(gl_q) > 0
    /\ Work < MaxWork
    /\ LET top == gl_q[Len(gl_q)]
           rest == SubSeq(gl_q, 1, Len(gl_q) - 1)
       IN  IF AlreadySeen(top.uuid, gl_seen)
           THEN /\ gl_q' = rest
                /\ UNCHANGED <<pc, gl_seen, leaves, expanded, lookups, raised>>
           ELSE LET got == IF IsUUID(top) THEN get_entry(top.uuid)
                           ELSE [ok |-> TRUE, entry |-> top]
                    e == got.entry
                IN  /\ lookups' = IF IsUUID(top)
                                  THEN Append(lookups, top.uuid) ELSE lookups
                    /\ IF ~got.ok
                       THEN /\ raised' = TRUE
                            /\ pc' = "idle"
                            /\ UNCHANGED <<gl_q, gl_seen, leaves, expanded>>
                       ELSE /\ gl_seen' = gl_seen \union {e.uuid}
                            /\ UNCHANGED <<pc, raised>>
                            /\ IF IsNestable(e)
                               THEN /\ gl_q' = rest \o PushChildren(e.children)
                                    /\ expanded' = Append(expanded, e.uuid)
                                    /\ UNCHANGED leaves
                               ELSE /\ leaves' = Append(leaves, e)
                                    /\ gl_q' = IF e.readback # None
                                               THEN rest \o e.readback
                                               ELSE rest
                                    /\ UNCHANGED expanded
    /\ UNCHANGED <<op, before>>
    /\ LeavesFrame

\* the loop ends with an empty q: return entries
LeavesReturn ==
    /\ pc = "while"
    /\ Len(gl_q) = 0
    /\ pc' = "idle"
    /\ UNCHANGED <<op, before, gl_q, gl_seen, leaves, expanded, lookups,
                   raised>>
    /\ LeavesFrame

\* the call runs on
LeavesStep ==
    \/ LeavesIteration
    \/ LeavesReturn

NextLeaves ==
    \/ LeavesBegin
    \/ LeavesStep

SpecLeaves == InitLeaves /\ [][NextLeaves]_vars

\* a call that was begun is not held up for ever
FairSpecLeaves == SpecLeaves /\ WF_vars(LeavesStep)

\* the entries that the entry of identifier id references
RefsOf(id) ==
    IF id \in DOMAIN store
    THEN { store[id].children[i].uuid : i \in 1..Len(store[id].children) }
    ELSE {}

\* C39: _gather_leaves terminates on every finite store, one with a cycle of
\* identifier references included: an entry is expanded at most once and the
\* work list empties, or the call ends on an absent identifier
C39_GatherTerminates ==
    /\ [](\A i, j \in 1..Len(expanded) : expanded[i] = expanded[j] => i = j)
    /\ (pc = "while") ~> (pc = "idle" /\ (gl_q = <<>> \/ raised))

\* _gather_leaves returned after it went round a cycle: Snapshot 2, held by
\* Snapshot 1, holds Snapshot 1 or itself
C39_Witness ==
    /\ op = "_gather_leaves"
    /\ pc = "idle"
    /\ ~raised
    /\ 2 \in RefsOf(1)
    /\ RefsOf(2) \cap {1, 2} # {}
    /\ expanded = <<1, 2>>
    /\ leaves # <<>>

-----------------------------------------------------------------------------
(* Client._build_snapshot: a Snapshot assembled from a Collection and a map *)
(* of values read beforehand.                                               *)

\* the Parameters of these stores: writable with a readback, read-only
\* without one
BuildParams ==
    (21 :> ParamOf(1, FALSE, TRUE)) @@ (22 :> ParamOf(2, TRUE, FALSE))

\* stores in which Collection 50 holds identifiers of Parameters, of the
\* Collection 51, of a Setpoint and of the absent entry 14
BuildStores ==
    { BuildParams
      @@ (5 :> Leaf("Setpoint", 5, "B", 21, None))
      @@ (50 :> Nest("Collection", 50, RefSeq(c1)))
      @@ (51 :> Nest("Collection", 51, RefSeq(c2))) :
        c1 \in InjSeqs({21, 51, 5, 14}, MaxChildren),
        c2 \in InjSeqs({21, 22}, MaxChildren) }

\* the maps of values a caller may have read: a value for some of the PVs
ValueMaps ==
    { [n \in names |-> EpicsData(LiveData[n])] :
        names \in SUBSET {"P1", "R1", "P2"} }

\* values.get(name, None)
ValueGet(values, name) ==
    IF name \in DOMAIN values THEN values[name] ELSE Unreadable

\* only a Parameter gives a child
Qualifies_paramOnly(child) == child.kind = "Parameter"

\* isinstance(child, Parameter) / isinstance(child, Collection)
Qualifies(child) == child.kind \in {"Parameter", "Collection"}

\* the entry built for a Parameter child
ParameterEntry(child, values) ==
    LET readback ==
            IF child.readback # None
            THEN <<Leaf("Readback", 0, child.readback[1].pv_name,
                        _value_or_default(
                            ValueGet(values, child.readback[1].pv_name)).data,
                        None)>>
            ELSE None
        edata == _value_or_default(ValueGet(values, child.pv_name))
    IN  IF child.read_only
        THEN Leaf("Readback", 0, child.pv_name, edata.data, None)
        ELSE Leaf("Setpoint", 0, child.pv_name, edata.data, readback)

\* the Readbacks built for the meta PVs: values is asked for the meta PV
\* itself, not for its name, and the PV is what the Readback is named by
MetaReadbacks(values) ==
    [i \in 1..Len(store_meta) |->
        [kind |-> "Readback", uuid |-> 0, pv_name |-> store_meta[i],
         data |-> NoData, readback |-> None, children |-> <<>>]]

RECURSIVE _build_snapshot(_, _, _), build_snapshot_children(_, _)

\* the loop over coll.children: [ok, children, lookups]
build_snapshot_children(cs, values) ==
    IF cs = <<>> THEN [ok |-> TRUE, children |-> <<>>, lookups |-> <<>>]
    ELSE LET got == IF IsUUID(Head(cs)) THEN get_entry(Head(cs).uuid)
                    ELSE [ok |-> TRUE, entry |-> Head(cs)]
             looked == IF IsUUID(Head(cs)) THEN <<Head(cs).uuid>> ELSE <<>>
             child == got.entry
         IN  IF ~got.ok
             THEN [ok |-> FALSE, children |-> <<>>, lookups |-> looked]
             ELSE LET new == IF ~Qualifies(child)
                             THEN [ok |-> TRUE, children |-> <<>>,
                                   lookups |-> <<>>]
                             ELSE IF child.kind = "Parameter"
                             THEN [ok |-> TRUE,
                                   children |->
                                       <<ParameterEntry(child, values)>>,
                                   lookups |-> <<>>]
                             ELSE LET b == _build_snapshot(child, values, None)
                                  IN  [ok |-> b.ok,
                                       children |-> <<b.snapshot>>,
                                       lookups |-> b.lookups]
                      rest == build_snapshot_children(Tail(cs), values)
                  IN  IF ~new.ok
                      THEN [ok |-> FALSE, children |-> <<>>,
                            lookups |-> looked \o new.lookups]
                      ELSE [ok |-> rest.ok,
                            children |-> new.children \o rest.children,
                            lookups |-> looked \o new.lookups \o rest.lookups]

\* _build_snapshot(coll, values, dest): [ok, snapshot, lookups]; ok is FALSE
\* when an identifier is absent from the store
_build_snapshot(coll, values, dest) ==
    LET given == IF dest # None THEN dest[1] ELSE SnapshotOf(<<>>, <<>>)
        kids == build_snapshot_children(coll.children, values)
    IN  [ok |-> kids.ok,
         snapshot |->
             [kind |-> "Snapshot", uuid |-> 0,
              children |-> given.children \o kids.children,
              meta_pvs |-> MetaReadbacks(values),
              origin_collection |-> coll],
         lookups |-> kids.lookups]

\* the caller holds Collection 50 as stored, or with its first child
\* resolved, and a map of values
InitBuild ==
    /\ store \in BuildStores
    /\ store_meta \in MetaLists
    /\ entry \in {store[50]}
         \union { WithChildResolved(store[50], 1) :
                    x \in { y \in {1} : /\ Len(store[50].children) > 0
                                        /\ store[50].children[1].uuid
                                             \in DOMAIN store } }
    /\ live \in ValueMaps
    /\ before = entry
    /\ pc = "idle"
    /\ op = "none"
    /\ fill_depth = None
    /\ lookups = <<>>
    /\ raised = FALSE
    /\ ApplyUnused
    /\ leaves = <<>>
    /\ expanded = <<>>
    /\ entry_r = None
    /\ diffs = <<>>
    /\ gets = <<>>
    /\ snapshot = None
    /\ UiUnused

\* a call of Client._build_snapshot(entry, live), with no dest or with an
\* empty Snapshot as dest; whether a meta PV can be a key asked of the map
\* is up to the entry classes
BuildSnapshot ==
    /\ snapshot = None
    /\ ~raised
    /\ \E dest \in {None, <<SnapshotOf(<<>>, <<>>)>>}, hashable \in BOOLEAN :
         LET b == _build_snapshot(entry, live, dest)
             ok == b.ok /\ (hashable \/ store_meta = <<>>)
         IN  /\ snapshot' = IF ok THEN b.snapshot ELSE None
             /\ lookups' = b.lookups
             /\ raised' = ~ok
    /\ gets' = <<>>
    /\ op' = "_build_snapshot"
    /\ before' = entry
    /\ UNCHANGED <<ui, store, store_meta, entry, live, pc, fill_depth,
                   sequential, pv_list, data_list, idx, status_list, puts,
                   returned, result, leaves, expanded, entry_r, diffs>>

NextBuild == BuildSnapshot

SpecBuild == InitBuild /\ [][NextBuild]_vars

\* the children of coll that are Parameters or Collections, identifiers
\* replaced by the stored entries
MirroredChildren(coll) ==
    LET stored == [i \in 1..Len(coll.children) |->
                     IF coll.children[i].kind = "UUID"
                     THEN store[coll.children[i].uuid] ELSE coll.children[i]]
    IN  SelectSeq(stored, LAMBDA x : x.kind \in {"Parameter", "Collection"})

\* the value the map holds for a PV name
ValueHeld(name) == IF name \in DOMAIN live THEN LiveData[name] ELSE NoData

RECURSIVE Mirrors(_, _)

\* Snapshot s mirrors Collection coll
Mirrors(s, coll) ==
    /\ s.kind = "Snapshot"
    /\ s.origin_collection = coll
    /\ Len(s.children) = Len(MirroredChildren(coll))
    /\ \A i \in 1..Len(s.children) :
         LET c == MirroredChildren(coll)[i]
         IN  IF c.kind = "Collection" THEN Mirrors(s.children[i], c)
             ELSE /\ s.children[i].kind
                       = IF c.read_only THEN "Readback" ELSE "Setpoint"
                  /\ s.children[i].pv_name = c.pv_name
                  /\ s.children[i].data = ValueHeld(c.pv_name)

\* C31: _build_snapshot(coll, values) reads no live value at any depth and
\* returns a Snapshot that mirrors coll: one child for each Parameter or
\* Collection child in coll's order, a nested Collection as a nested Snapshot
\* built from the same values, identifier children fetched from the store,
\* origin_collection set to coll
C31_BuildMirrorsCollection ==
    (op = "_build_snapshot" /\ ~raised) =>
        /\ gets = <<>>
        /\ Mirrors(snapshot, entry)

\* _build_snapshot returned a Snapshot with a nested Snapshot that has a
\* child, built for a Collection whose children were identifiers
C31_Witness ==
    /\ op = "_build_snapshot"
    /\ ~raised
    /\ entry = store[50]
    /\ \E i \in 1..Len(snapshot.children) :
         /\ snapshot.children[i].kind = "Snapshot"
         /\ snapshot.children[i].children # <<>>
    /\ \E i \in 1..Len(snapshot.children) :
         snapshot.children[i].kind = "Setpoint"
    /\ lookups # <<>>

-----------------------------------------------------------------------------
(* Window.take_snapshot (widgets/window.py): a metadata dialog whose        *)
(* accepted signal is connected to four slots.  A signal calls its slots in *)
(* the order of the connections.                                            *)

MaxTakes == 2

\* the stores behind the window: two Parameters, with or without a Snapshot
\* that was saved earlier
TakeStores ==
    { BuildParams,
      BuildParams @@ (90 :> [SnapshotOf(<<>>, <<>>) EXCEPT !.uuid = 90]) }

\* the meta PVs of the store: none, or one
TakeMeta == {<<>>, <<Param(41, "M1", TRUE, None)>>}

\* Snapshot(): a new Snapshot; its uuid stands for its creation_time too
NewSnapshot == [SnapshotOf(<<>>, <<>>) EXCEPT !.uuid = 100 + Len(slot_log)]

\* SnapshotTableModel.fetch: the Snapshots of the store, the newest first
Fetch(st) == Reverse(OfKind(st, DOMAIN st, "Snapshot"))

\* the table refetches before the Snapshot is filled and saved
Connected_fetchFirst == <<"fetch", "snap", "save", "open_snapshot">>

\* the slots take_snapshot connects to dialog.accepted, in its order
Connected == <<"snap", "save", "open_snapshot", "fetch">>

\* Client.snap(dest): the Snapshot after it, for the values data
snap_result(dest, data) ==
    LET t == SnapTargets
        main == snap_params(t.pvs, data, t.readback_pvs)
    IN  [dest EXCEPT
           !.children = @ \o main.children \o snap_readbacks(main.pool, data),
           !.meta_pvs = @ \o snap_readbacks(store_meta, data)]

\* one slot, run on the window w = [dest, store, details, page, listed, gets]
RunSlot(w, slot, data) ==
    CASE slot = "snap" ->
           [w EXCEPT !.dest = snap_result(w.dest, data),
                     !.gets = @ \o GetCalls(NamesOf(SnapTargets.all_pvs))]
      [] slot = "save" ->
           [w EXCEPT !.store = (w.dest.uuid :> w.dest) @@ w.store]
      [] slot = "open_snapshot" ->
           [w EXCEPT !.details = <<w.dest.uuid>>,
                     !.page = "snapshot_details_page"]
      [] slot = "fetch" ->
           [w EXCEPT !.listed = Fetch(w.store)]

RECURSIVE RunSlots(_, _, _)

\* the slots of a signal, called one after the other
RunSlots(w, slots, data) ==
    IF slots = <<>> THEN w
    ELSE RunSlots(RunSlot(w, Head(slots), data), Tail(slots), data)

\* a Window over a store; its snapshot table fetched when it was made
InitTake ==
    /\ store \in TakeStores
    /\ store_meta \in TakeMeta
    /\ entry = None
    /\ before = None
    /\ pc = "idle"
    /\ op = "none"
    /\ fill_depth = None
    /\ lookups = <<>>
    /\ raised = FALSE
    /\ ApplyUnused
    /\ leaves = <<>>
    /\ expanded = <<>>
    /\ entry_r = None
    /\ diffs = <<>>
    /\ live = <<>>
    /\ gets = <<>>
    /\ snapshot = None
    /\ SearchUnused
    /\ DiffUnused
    /\ WindowConstructed
    /\ ItemsUnused
    /\ PollUnused
    /\ GatherUnused
    /\ TagsUnused
    /\ LiveUnused
    /\ ViewUnused
    /\ dialog = "none"
    /\ dest_snapshot = None
    /\ listed = Fetch(store)
    /\ slot_log = <<>>

\* what take_snapshot and its dialog leave alone
TakeFrame ==
    UNCHANGED <<entry, before, pc, fill_depth, lookups, raised, sequential,
                pv_list, data_list, idx, status_list, puts, returned, result,
                leaves, expanded, entry_r, diffs, store_meta, snapshot,
                search_vars, dd_vars, selected, nav_expanded, text, icon_only,
                item_vars, poll_vars, take_rest>>

\* Window.take_snapshot(): the dialog is made, connected and opened
TakeSnapshot ==
    /\ dialog # "open"
    /\ Len(slot_log) < MaxTakes * Len(Connected)
    /\ dest_snapshot' = <<NewSnapshot>>
    /\ dialog' = "open"
    /\ op' = "take_snapshot"
    /\ UNCHANGED <<store, live, gets, current_page, shown, listed, slot_log>>
    /\ TakeFrame

\* the user saves: dialog.accepted is emitted; the service answers each PV
\* with its value or with something that is no EpicsData
DialogAccepted ==
    /\ dialog = "open"
    /\ LET names == NamesOf(SnapTargets.all_pvs)
       IN  \E readable \in SUBSET Range(names) :
             LET values == [i \in 1..Len(names) |->
                              IF names[i] \in readable
                              THEN EpicsData(LiveData[names[i]])
                              ELSE Unreadable]
                 data == DictOf(names, values)
                 w == RunSlots([dest |-> dest_snapshot[1], store |-> store,
                                details |-> shown.details,
                                page |-> current_page, listed |-> listed,
                                gets |-> <<>>],
                               Connected, data)
             IN  /\ dest_snapshot' = <<w.dest>>
                 /\ store' = w.store
                 /\ shown' = [shown EXCEPT !.details = w.details]
                 /\ current_page' = w.page
                 /\ listed' = w.listed
                 /\ gets' = w.gets
                 /\ live' = data
    /\ slot_log' = slot_log \o Connected
    /\ dialog' = "accepted"
    /\ op' = "accepted"
    /\ TakeFrame

\* the user cancels: dialog.rejected is emitted, nothing is connected to it
DialogRejected ==
    /\ dialog = "open"
    /\ dialog' = "rejected"
    /\ op' = "rejected"
    /\ UNCHANGED <<store, live, gets, current_page, shown, listed, slot_log,
                   dest_snapshot>>
    /\ TakeFrame

NextTake ==
    \/ TakeSnapshot
    \/ DialogAccepted
    \/ DialogRejected

SpecTake == InitTake /\ [][NextTake]_vars

\* the Snapshot of take_snapshot holds an entry for every Parameter
Populated(s) ==
    \A id \in DOMAIN store :
        store[id].kind = "Parameter" =>
            \E i \in 1..Len(s.children) :
                s.children[i].pv_name = store[id].pv_name

\* C32: when the metadata dialog is accepted, snap fills the destination
\* Snapshot, then it is saved, then opened in the details page, then the
\* table refetches, so the saved and the listed Snapshot are the filled one;
\* when the dialog is rejected none of snap, save, open or fetch happens
C32_TakeSnapshotOrder ==
    /\ [](dialog = "accepted" =>
            LET d == dest_snapshot[1]
                n == Len(slot_log)
            IN  /\ SubSeq(slot_log, n - 3, n)
                     = <<"snap", "save", "open_snapshot", "fetch">>
                /\ Populated(d)
                /\ Len(gets) = 1
                /\ d.uuid \in DOMAIN store
                /\ store[d.uuid] = d
                /\ listed[1] = d
                /\ shown.details = <<d.uuid>>
                /\ current_page = "snapshot_details_page")
    /\ [][dialog' = "rejected" =>
            UNCHANGED <<store, gets, current_page, shown, listed, slot_log,
                        dest_snapshot>>]_vars
    /\ [](dialog = "rejected" =>
            /\ dest_snapshot[1].children = <<>>
            /\ dest_snapshot[1].uuid \notin DOMAIN store)

\* a second Snapshot was taken and saved after the first, with values read
C32_Witness ==
    /\ dialog = "accepted"
    /\ Len(slot_log) = 2 * Len(Connected)
    /\ Len(listed) >= 2
    /\ \E i \in 1..Len(dest_snapshot[1].children) :
         dest_snapshot[1].children[i].data = LiveData["P1"]

-----------------------------------------------------------------------------
(* TagsWidget and its TagChips (widgets/tag.py).  A chip holds its active   *)
(* tags; its editor holds the selection of a list widget, which the user     *)
(* changes and clear() empties.  A chip taken out of the layout stays a      *)
(* child of the widget.                                                      *)

MaxChips == 3
MaxTagItems == 2

\* the tag groups that can have a chip, the groups a TagSet can name and the
\* tags of a group
ChipGroups == {0, 1}
TagSetGroups == {0, 1, 5}
Tags == {1}

\* a TagChip: tags are its active tags, sel the selection of its editor,
\* laid whether it is in the layout
Chip(g) == [tag_group |-> g, tags |-> {}, sel |-> {}, laid |-> TRUE]

\* the TagSets set_tags is given, as the items of the dict in their order
TagSets ==
    { ts \in UNION { [1..k -> TagSetGroups \X SUBSET Tags] :
                       k \in 0..MaxTagItems } :
        \A i, j \in DOMAIN ts : i # j => ts[i][1] # ts[j][1] }

\* the tag groups that have a chip among cs
GroupsOf(cs) == { cs[i].tag_group : i \in 1..Len(cs) }

\* TagsWidget.get_tag_set(): tag_set[chip.tag_group] = chip.tags for the
\* chips in their order, a later chip replacing an earlier one
get_tag_set(cs) ==
    [g \in GroupsOf(cs) |->
        cs[CHOOSE i \in 1..Len(cs) :
             /\ cs[i].tag_group = g
             /\ \A j \in 1..Len(cs) : cs[j].tag_group = g => j <= i].tags]

\* TagsWidget.get_group_chip(tag_group): the first chip of the group (its
\* position), 0 for None
get_group_chip(cs, g) ==
    IF g \notin GroupsOf(cs) THEN 0
    ELSE CHOOSE i \in 1..Len(cs) :
           /\ cs[i].tag_group = g
           /\ \A j \in 1..Len(cs) : cs[j].tag_group = g => i <= j

\* TagChip.set_tags(tags) on chip i: [chips, emitted]; tagsChanged is
\* connected to emitTagSetChanged, which emits get_tag_set()
chip_set_tags(w, i, tags) ==
    LET cs == [w.chips EXCEPT ![i].tags = tags]
    IN  [chips |-> cs, emitted |-> Append(w.emitted, get_tag_set(cs))]

\* TagChip.clear() on chip i: the tags are emptied, then the selection of the
\* editor; a selection that changes calls set_tags with the new selection
chip_clear(w, i) ==
    LET cs == [w.chips EXCEPT ![i].tags = {}, ![i].sel = {}]
    IN  IF w.chips[i].sel # {}
        THEN chip_set_tags([w EXCEPT !.chips = cs], i, {})
        ELSE [w EXCEPT !.chips = cs]

RECURSIVE clear_tags(_, _)

\* TagsWidget.clear_tags(), from chip i on
clear_tags(w, i) ==
    IF i > Len(w.chips) THEN w
    ELSE clear_tags(chip_clear(w, i), i + 1)

RECURSIVE set_tags_items(_, _)

\* the loop of TagsWidget.set_tags over tag_set.items()
set_tags_items(w, ts) ==
    IF ts = <<>> THEN w
    ELSE LET chip == get_group_chip(w.chips, Head(ts)[1])
         IN  set_tags_items(IF chip # 0
                            THEN chip_set_tags(w, chip, Head(ts)[2])
                            ELSE w,
                            Tail(ts))

\* TagsWidget.set_tags(tag_set)
set_tags(cs, ts) ==
    set_tags_items(clear_tags([chips |-> cs, emitted |-> <<>>], 1), ts)

RECURSIVE NewChips(_)

\* the chips set_tag_groups makes, one for each group of tag_groups
NewChips(groups) ==
    IF groups = {} THEN <<>>
    ELSE LET g == CHOOSE x \in groups : \A y \in groups : x <= y
         IN  <<Chip(g)>> \o NewChips(groups \ {g})

\* set_tag_groups(tag_groups): every item is taken out of the layout and a
\* chip is added for each group
set_tag_groups(cs, groups) ==
    [i \in 1..Len(cs) |-> [cs[i] EXCEPT !.laid = FALSE]] \o NewChips(groups)

\* TagsWidget(tag_groups=...)
InitTags ==
    /\ ClientUnused
    /\ op = "none"
    /\ SearchUnused
    /\ DiffUnused
    /\ WindowConstructed
    /\ ItemsUnused
    /\ PollUnused
    /\ GatherUnused
    /\ TakeUnused
    /\ LiveUnused
    /\ ViewUnused
    /\ \E groups \in SUBSET ChipGroups : chips = set_tag_groups(<<>>, groups)
    /\ tag_arg = <<>>

\* what a call of the TagsWidget leaves alone
TagsFrame ==
    UNCHANGED <<client_vars, search_vars, l_entry, r_entry, win_vars,
                item_vars, poll_vars, tag_rest>>

\* TagsWidget.set_tag_groups(tag_groups)
SetTagGroups ==
    /\ \E groups \in SUBSET ChipGroups :
         /\ Len(chips) + Cardinality(groups) <= MaxChips
         /\ chips' = set_tag_groups(chips, groups)
    /\ emitted' = <<>>
    /\ op' = "set_tag_groups"
    /\ tag_arg' = <<>>
    /\ TagsFrame

\* TagsWidget.set_tags(tag_set)
SetTags ==
    /\ \E ts \in TagSets :
         LET w == set_tags(chips, ts)
         IN  /\ chips' = w.chips
             /\ emitted' = w.emitted
             /\ tag_arg' = ts
    /\ op' = "set_tags"
    /\ TagsFrame

\* the user changes the selection in the editor of a chip of the layout:
\* TagEditor.emitTagsChanged, connected to the chip's set_tags
EditorSelects ==
    /\ \E i \in 1..Len(chips), picked \in SUBSET Tags :
         /\ chips[i].laid
         /\ picked # chips[i].sel
         /\ LET w == chip_set_tags(
                       [chips |-> [chips EXCEPT ![i].sel = picked],
                        emitted |-> <<>>], i, picked)
            IN  /\ chips' = w.chips
                /\ emitted' = w.emitted
    /\ op' = "select"
    /\ tag_arg' = <<>>
    /\ TagsFrame

\* TagChip.mouseReleaseEvent on the clear button of a chip with tags
ClickClear ==
    /\ \E i \in 1..Len(chips) :
         /\ chips[i].laid
         /\ chips[i].tags # {}
         /\ LET w == chip_clear([chips |-> chips, emitted |-> <<>>], i)
            IN  /\ chips' = w.chips
                /\ emitted' = w.emitted
    /\ op' = "clear"
    /\ tag_arg' = <<>>
    /\ TagsFrame

NextTags ==
    \/ SetTagGroups
    \/ SetTags
    \/ EditorSelects
    \/ ClickClear

SpecTags == InitTags /\ [][NextTags]_vars

\* the TagSet get_tag_set is to give after set_tags(tag_arg)
ExpectedTagSet ==
    [g \in GroupsOf(chips) |->
        IF \E i \in 1..Len(tag_arg) : tag_arg[i][1] = g
        THEN (CHOOSE t \in Range(tag_arg) : t[1] = g)[2]
        ELSE {}]

\* C33: after set_tags(ts), get_tag_set() gives ts[group] for every group
\* with a chip that ts names and the empty set for the other groups with a
\* chip, whatever was set before; the last tagSetChanged emitted during a
\* set_tags with a non-empty ts carries that TagSet
C33_SetTagsThenGet ==
    op = "set_tags" =>
        /\ get_tag_set(chips) = ExpectedTagSet
        /\ (tag_arg # <<>> /\ emitted # <<>>)
             => emitted[Len(emitted)] = ExpectedTagSet

-----------------------------------------------------------------------------
(* LivePVTableModel with its LivePVTableView and its poll threads           *)
(* (widgets/views.py).  Dicts are objects: the model's _data_cache and a    *)
(* thread's data name a dict by its number, so that two names can hold the  *)
(* same dict.  The GUI thread runs the methods of the model and the view,   *)
(* each as one action; a poll thread takes one step at a time between them. *)

MaxDicts == 3
MaxThreads == 2

LiveNames == {"A", "B"}
LiveClients == {1, 2}

\* the lists of entries a model is given, as PV names
NameLists ==
    { ns \in UNION { [1..n -> LiveNames] : n \in 0..MaxPVs } :
        \A i, j \in DOMAIN ns : i # j => ns[i] # ns[j] }

\* pv_name in d
HasKey(d, pv_name) == \E i \in 1..Len(d) : d[i][1] = pv_name

\* d[pv_name]
ValueOf(d, pv_name) == d[CHOOSE i \in 1..Len(d) : d[i][1] = pv_name][2]

\* d[pv_name] = v, which adds the key at the end when it is missing
Assigned(d, pv_name, v) ==
    IF HasKey(d, pv_name)
    THEN [i \in 1..Len(d) |-> IF d[i][1] = pv_name THEN <<pv_name, v>> ELSE d[i]]
    ELSE Append(d, <<pv_name, v>>)

RECURSIVE FromKeys(_)

\* {e.pv_name: None for e in entries}
FromKeys(names) ==
    IF names = <<>> THEN <<>>
    ELSE LET d == FromKeys(SubSeq(names, 1, Len(names) - 1))
         IN  Assigned(d, names[Len(names)], 0)

\* _PVPollThread(data=..., client=...) after QThread.start(); `iter` is the
\* dict the for loop goes over, `pos` how many keys it has given, `size` the
\* length the iterator expects, `cur` the pv_name of the pass and `val` what
\* the control layer answered for it
NewThread(d, c) ==
    [pc |-> "started", running |-> FALSE, data |-> d, client |-> c,
     iter |-> 0, pos |-> 0, size |-> 0, cur |-> "", val |-> 0,
     stopped |-> FALSE, error |-> ""]

\* self.poll_period <= 0.0
LiveSingleShot == live_period <= 0

\* QThread.isRunning()
isRunning(th) == th.pc \notin {"exited", "raised"}

\* the thread is inside the for loop of run()
InPass(th) == th.pc \in {"for", "get", "read", "write", "check"}

\* what ControlLayer.get does for the model's threads
LiveOutcomes == { o \in GetOutcomes : o.kind = "value" => o.value = 1 }

\* the dicts ds, where a dict that neither the cache nor a running thread
\* holds any more is shown empty
Collected(ds, ths, cache) ==
    [i \in 1..Len(ds) |->
        IF \/ i = cache
           \/ \E t \in 1..Len(ths) :
                 /\ isRunning(ths[t])
                 /\ i = ths[t].data \/ (InPass(ths[t]) /\ i = ths[t].iter)
        THEN ds[i] ELSE <<>>]

\* the model as the methods below take and give it
Model ==
    [entries |-> lv_entries, dicts |-> dicts, cache |-> _data_cache,
     threads |-> threads, pt |-> _poll_thread, client |-> model_client]

\* LivePVTableModel.start_polling()
start_polling(m) ==
    IF m.pt # 0 /\ isRunning(m.threads[m.pt]) THEN m
    ELSE [m EXCEPT !.threads = Append(m.threads, NewThread(m.cache, m.client)),
                   !.pt = Len(m.threads) + 1]

\* LivePVTableModel.stop_polling() with no wait_time
stop_polling(m) ==
    IF m.pt = 0 \/ ~isRunning(m.threads[m.pt]) THEN m
    ELSE [m EXCEPT !.threads[m.pt].running = FALSE,
                   !.threads[m.pt].stopped = TRUE,
                   !.dicts = Append(m.dicts, <<>>),
                   !.threads[m.pt].data = Len(m.dicts) + 1]

\* LivePVTableModel.set_entries(entries)
set_entries(m, names) ==
    [m EXCEPT !.entries = names,
              !.dicts = Append(m.dicts, FromKeys(names)),
              !.cache = Len(m.dicts) + 1,
              !.threads[m.pt].data = Len(m.dicts) + 1]

\* LivePVTableModel.remove_entry(entry), entry the one of row i
remove_entry(m, i) == set_entries(m, Without(m.entries, i))

\* LivePVTableModel.get_cache_data(pv_name): the dicts after it
get_cache_data(m, pv_name) ==
    IF /\ ~HasKey(m.dicts[m.cache], pv_name)
    THEN [m.dicts EXCEPT ![m.cache] = Append(@, <<pv_name, 0>>)]
    ELSE m.dicts

\* LivePVTableModel(client=..., entries=..., poll_period=...), made by the
\* view's maybe_setup_model: the cache is built and polling is started
InitLive ==
    /\ ClientUnused
    /\ op = "none"
    /\ SearchUnused
    /\ DiffUnused
    /\ WindowConstructed
    /\ ItemsUnused
    /\ PollUnused
    /\ GatherUnused
    /\ TakeUnused
    /\ TagsUnused
    /\ ViewUnused
    /\ lv_entries \in NameLists
    /\ dicts = <<FromKeys(lv_entries)>>
    /\ _data_cache = 1
    /\ threads = <<NewThread(1, 1)>>
    /\ _poll_thread = 1
    /\ model_client = 1
    /\ view_client = 1
    /\ live_period \in {0, 1}

\* what the model, its view and its threads leave alone
LiveFrame ==
    UNCHANGED <<client_vars, search_vars, dd_vars, win_vars, item_vars,
                poll_vars, live_rest>>

\* the model m is within the bounds and becomes the state
Becomes(m) ==
    /\ Len(m.dicts) <= MaxDicts
    /\ Len(m.threads) <= MaxThreads
    /\ lv_entries' = m.entries
    /\ dicts' = Collected(m.dicts, m.threads, m.cache)
    /\ _data_cache' = m.cache
    /\ threads' = m.threads
    /\ _poll_thread' = m.pt
    /\ model_client' = m.client

\* The calls below leave op = "model" when they are calls of the model.

\* LivePVTableModel.start_polling()
StartPolling ==
    /\ Becomes(start_polling(Model))
    /\ op' = "model"
    /\ UNCHANGED <<view_client, live_period>>
    /\ LiveFrame

\* LivePVTableModel.stop_polling()
StopPolling ==
    /\ Becomes(stop_polling(Model))
    /\ op' = "model"
    /\ UNCHANGED <<view_client, live_period>>
    /\ LiveFrame

\* LivePVTableModel.set_entries(entries)
SetEntries ==
    /\ \E names \in NameLists : Becomes(set_entries(Model, names))
    /\ op' = "model"
    /\ UNCHANGED <<view_client, live_period>>
    /\ LiveFrame

\* LivePVTableModel.remove_entry(entry)
RemoveEntry ==
    /\ \E i \in 1..Len(lv_entries) : Becomes(remove_entry(Model, i))
    /\ op' = "model"
    /\ UNCHANGED <<view_client, live_period>>
    /\ LiveFrame

\* BaseTableEntryModel.setData(index, value, role) on the PV name column:
\* setattr(entry, 'pv_name', value)
SetPVName ==
    /\ \E i \in 1..Len(lv_entries), value \in LiveNames :
         /\ value \notin Range(lv_entries)
         /\ lv_entries' = [lv_entries EXCEPT ![i] = value]
    /\ op' = "model"
    /\ UNCHANGED <<dicts, _data_cache, threads, _poll_thread, model_client,
                   view_client, live_period>>
    /\ LiveFrame

\* LivePVTableModel.data(index, role) for a column that shows live data:
\* get_cache_data(entry.pv_name)
GetCacheData ==
    /\ \E i \in 1..Len(lv_entries) :
         dicts' = Collected(get_cache_data(Model, lv_entries[i]), threads,
                            _data_cache)
    /\ op' = "model"
    /\ UNCHANGED <<lv_entries, _data_cache, threads, _poll_thread,
                   model_client, view_client, live_period>>
    /\ LiveFrame

\* LivePVTableView.client = client: _set_client (maybe_setup_model gathers
\* the same entries and calls set_entries when the client is another one),
\* then stop_polling, the model's client and start_polling; op tells
\* "set_client" when the client was another one
SetClient ==
    /\ \E c \in LiveClients :
         LET m1 == IF c = view_client THEN Model
                   ELSE set_entries(Model, lv_entries)
             m2 == stop_polling(m1)
             m3 == [m2 EXCEPT !.client = c]
         IN  /\ Becomes(start_polling(m3))
             /\ view_client' = c
             /\ op' = IF c = view_client THEN "model" ELSE "set_client"
    /\ UNCHANGED live_period
    /\ LiveFrame

\* a step of thread t changes only that thread and, when it writes, the dicts
ThreadFrame ==
    /\ UNCHANGED <<op, lv_entries, _data_cache, _poll_thread, model_client,
                   view_client, live_period>>
    /\ LiveFrame

\* run(): self.running = True; self.data_ready.emit()
LiveRunBegin(t) ==
    /\ threads[t].pc = "started"
    /\ threads' = [threads EXCEPT ![t].running = TRUE, ![t].pc = "while"]
    /\ dicts' = Collected(dicts, threads', _data_cache)
    /\ ThreadFrame

\* run(): while self.running, and iter(self.data) of the for loop
LiveWhileTest(t) ==
    /\ threads[t].pc = "while"
    /\ threads' =
         IF threads[t].running
         THEN [threads EXCEPT ![t].pc = "for",
                              ![t].iter = threads[t].data,
                              ![t].pos = 0,
                              ![t].size = Len(dicts[threads[t].data])]
         ELSE [threads EXCEPT ![t].pc = "exited", ![t].iter = 0,
                              ![t].pos = 0, ![t].size = 0]
    /\ dicts' = Collected(dicts, threads', _data_cache)
    /\ ThreadFrame

\* run(): the next pv_name of the for loop; the iterator raises RuntimeError
\* when the dict it goes over has changed its size
LiveForNext(t) ==
    /\ threads[t].pc = "for"
    /\ LET th == threads[t]
           d == dicts[th.iter]
       IN  threads' =
             IF Len(d) # th.size
             THEN [threads EXCEPT ![t].pc = "raised",
                                  ![t].error = "RuntimeError"]
             ELSE IF th.pos = th.size
             THEN [threads EXCEPT ![t].pc = "after", ![t].iter = 0,
                                  ![t].pos = 0, ![t].size = 0]
             ELSE [threads EXCEPT ![t].pc = "get",
                                  ![t].pos = th.pos + 1,
                                  ![t].cur = d[th.pos + 1][1]]
    /\ dicts' = Collected(dicts, threads', _data_cache)
    /\ ThreadFrame

\* _update_data: val = self.client.cl.get(pv_name); an exception and a
\* returned exception end the update
LiveGet(t) ==
    /\ threads[t].pc = "get"
    /\ \E val \in LiveOutcomes :
         threads' = IF val.kind = "value"
                    THEN [threads EXCEPT ![t].pc = "read",
                                         ![t].val = val.value]
                    ELSE [threads EXCEPT ![t].pc = "check", ![t].cur = ""]
    /\ dicts' = Collected(dicts, threads', _data_cache)
    /\ ThreadFrame

\* _update_data: self.data[pv_name] != val, which raises KeyError when
\* pv_name is no key of self.data
LiveRead(t) ==
    /\ threads[t].pc = "read"
    /\ LET th == threads[t]
           d == dicts[th.data]
       IN  threads' =
             IF ~HasKey(d, th.cur)
             THEN [threads EXCEPT ![t].pc = "raised", ![t].error = "KeyError"]
             ELSE IF ValueOf(d, th.cur) # th.val
             THEN [threads EXCEPT ![t].pc = "write"]
             ELSE [threads EXCEPT ![t].pc = "check", ![t].cur = "",
                                  ![t].val = 0]
    /\ dicts' = Collected(dicts, threads', _data_cache)
    /\ ThreadFrame

\* _update_data: self.data_changed.emit(pv_name); self.data[pv_name] = val
LiveWrite(t) ==
    /\ threads[t].pc = "write"
    /\ threads' = [threads EXCEPT ![t].pc = "check", ![t].cur = "",
                                  ![t].val = 0]
    /\ dicts' = Collected([dicts EXCEPT ![threads[t].data] =
                             Assigned(@, threads[t].cur, threads[t].val)],
                          threads', _data_cache)
    /\ ThreadFrame

\* run(): if not self.running: break
LiveForCheck(t) ==
    /\ threads[t].pc = "check"
    /\ threads' = IF threads[t].running
                  THEN [threads EXCEPT ![t].pc = "for"]
                  ELSE [threads EXCEPT ![t].pc = "after", ![t].iter = 0,
                                       ![t].pos = 0, ![t].size = 0]
    /\ dicts' = Collected(dicts, threads', _data_cache)
    /\ ThreadFrame

\* run(): the single-shot break, or the sleep before the next pass
LiveAfterPass(t) ==
    /\ threads[t].pc = "after"
    /\ threads' = [threads EXCEPT
                     ![t].pc = IF LiveSingleShot THEN "exited" ELSE "while"]
    /\ dicts' = Collected(dicts, threads', _data_cache)
    /\ ThreadFrame

\* the steps of the poll threads
LiveThreadStep ==
    \E t \in 1..Len(threads) :
        \/ LiveRunBegin(t)
        \/ LiveWhileTest(t)
        \/ LiveForNext(t)
        \/ LiveGet(t)
        \/ LiveRead(t)
        \/ LiveWrite(t)
        \/ LiveForCheck(t)
        \/ LiveAfterPass(t)

NextLive ==
    \/ StartPolling
    \/ StopPolling
    \/ SetEntries
    \/ RemoveEntry
    \/ SetPVName
    \/ GetCacheData
    \/ SetClient
    \/ LiveThreadStep

SpecLive == InitLive /\ [][NextLive]_vars

\* a started thread is scheduled again and again; the GUI thread need not
\* be called
FairSpecLive == SpecLive /\ WF_vars(LiveThreadStep)

\* the model's thread is polling through the view's client
Polling ==
    /\ _poll_thread # 0
    /\ isRunning(threads[_poll_thread])
    /\ threads[_poll_thread].pc # "started"
    /\ threads[_poll_thread].running
    /\ threads[_poll_thread].client = view_client

\* C34: once the view's client was set, and unless the GUI thread calls the
\* model again, the model comes to have a running poll thread that reads
\* through the view's client
C34_NewClientPolls ==
    (op = "set_client") ~> (op # "set_client" \/ Polling)

\* C35: a thread that stop_polling has stopped comes to leave its run loop
\* (by returning or by an exception), and a thread that finds running False
\* at the while test begins no pass
C35_StopLeadsToExit ==
    /\ \A t \in 1..MaxThreads :
         (t <= Len(threads) /\ threads[t].stopped)
            ~> (t <= Len(threads) /\ ~isRunning(threads[t]))
    /\ [][\A t \in 1..Len(threads) :
            (threads[t].pc = "while" /\ ~threads[t].running)
               => threads'[t].pc # "for"]_vars

\* C36: while a thread is inside a pass over a dict, no step changes the
\* keys of that dict
C36_KeysStableInPass ==
    [][\A t \in 1..Len(threads) :
          (InPass(threads[t]) /\ InPass(threads'[t]))
             => Keys(dicts'[threads[t].iter]) = Keys(dicts[threads[t].iter])
      ]_vars

\* C37: when _update_data reads self.data[pv_name], pv_name is a key of the
\* dict the thread's data names at that moment
C37_UpdateReadsKey ==
    \A t \in 1..Len(threads) :
        threads[t].pc = "read"
           => HasKey(dicts[threads[t].data], threads[t].cur)

-----------------------------------------------------------------------------
(* The table views (widgets/views.py): BaseDataTableView.set_data, the      *)
(* client setter and maybe_setup_model, with gather_sub_entries of          *)
(* LivePVTableView and of NestableTableView.  The model is handed the list  *)
(* object sub_entries, so that an append to sub_entries shows in the        *)
(* model's entries while the two are the same object.                       *)

MaxSub == 4

ViewClasses == {"LivePVTableView", "NestableTableView"}
ViewClients == {1, 2}

\* isinstance(e, Entry)
isinstance_Entry(e) == e.kind \notin {"UUID", "list"}

\* a list of entries, as set_data accepts it
ListOf(es) ==
    [kind |-> "list", uuid |-> 0, pv_name |-> "", data |-> 0,
     readback |-> None, children |-> es]

\* stores in which Snapshot 1 holds Snapshot 2 and Setpoint 4 in some order
ViewStores ==
    { st \in TreeStores : Len(st[1].children) = 2 /\ st[3].children = <<>> }

\* what set_data is given
ViewData ==
    { store[i] : i \in {1, 2, 4, 9, 12} }
    \union { ListOf(<<store[2], store[4]>>) }

\* the test of gather_sub_entries on a child: LivePVTableView takes the
\* entries that are no Nestable, NestableTableView those that are
Gathered(cls, child) ==
    IF cls = "LivePVTableView"
    THEN ~IsNestable(child) /\ isinstance_Entry(child)
    ELSE IsNestable(child) /\ isinstance_Entry(child)

RECURSIVE gather_children(_, _, _, _)

\* the loop of gather_sub_entries over self.data.children from position i:
\* [ok, children, sub]; ok is FALSE for EntryNotFoundError
gather_children(cls, children, i, sub) ==
    IF i > Len(children) THEN [ok |-> TRUE, children |-> children, sub |-> sub]
    ELSE LET found == IF IsUUID(children[i]) THEN get_entry(children[i].uuid)
                      ELSE [ok |-> TRUE, entry |-> children[i]]
         IN  IF ~found.ok
             THEN [ok |-> FALSE, children |-> children, sub |-> sub]
             ELSE gather_children(
                      cls, [children EXCEPT ![i] = found.entry], i + 1,
                      IF Gathered(cls, found.entry)
                      THEN Append(sub, found.entry) ELSE sub)

\* gather_sub_entries() of the view: [ok, data, sub, fresh]; fresh tells
\* that sub_entries was bound to a new list
gather_sub_entries(cls, d, sub) ==
    LET found == IF IsUUID(d) THEN get_entry(d.uuid)
                 ELSE [ok |-> TRUE, entry |-> d]
        e == found.entry
    IN  IF ~found.ok
        THEN [ok |-> FALSE, data |-> d, sub |-> sub, fresh |-> FALSE]
        ELSE IF IsNestable(e)
        THEN LET g == gather_children(
                          cls, e.children, 1,
                          IF cls = "LivePVTableView" THEN <<>> ELSE sub)
             IN  [ok |-> g.ok, data |-> [e EXCEPT !.children = g.children],
                  sub |-> g.sub, fresh |-> cls = "LivePVTableView"]
        ELSE IF cls = "LivePVTableView" /\ isinstance_Entry(e)
        THEN [ok |-> TRUE, data |-> e, sub |-> <<e>>, fresh |-> TRUE]
        ELSE [ok |-> TRUE, data |-> e, sub |-> sub, fresh |-> FALSE]

\* BaseDataTableView.maybe_setup_model() with the client c and the data d
maybe_setup_model(c, d) ==
    IF c = 0 \/ d = None
    THEN UNCHANGED <<sub_entries, tv_model, tv_entries, tv_alias>>
         /\ tv_data' = d
         /\ tv_raised' = FALSE
    ELSE LET g == gather_sub_entries(tv_cls, d[1], sub_entries)
         IN  /\ Len(g.sub) <= MaxSub
             /\ tv_data' = <<g.data>>
             /\ sub_entries' = g.sub
             /\ tv_raised' = ~g.ok
             /\ IF g.ok
                THEN \* the model is made with entries=self.sub_entries
                     \* (`entries or []` is a new list for an empty one),
                     \* or set_entries(self.sub_entries) is called
                     /\ tv_model' = TRUE
                     /\ tv_entries' = g.sub
                     /\ tv_alias' = (tv_model \/ g.sub # <<>>)
                ELSE /\ tv_model' = tv_model
                     /\ tv_alias' = (tv_alias /\ ~g.fresh)
                     /\ tv_entries' = IF tv_alias /\ ~g.fresh THEN g.sub
                                      ELSE tv_entries

\* a view as its constructor leaves it, with no data or an identifier
InitView ==
    /\ store \in ViewStores
    /\ entry = None
    /\ before = None
    /\ pc = "idle"
    /\ op = "none"
    /\ fill_depth = None
    /\ lookups = <<>>
    /\ raised = FALSE
    /\ ApplyUnused
    /\ OthersUnused
    /\ SearchUnused
    /\ DiffUnused
    /\ WindowConstructed
    /\ ItemsUnused
    /\ PollUnused
    /\ GatherUnused
    /\ TakeUnused
    /\ TagsUnused
    /\ LiveUnused
    /\ tv_cls \in ViewClasses
    /\ tv_client = 0
    /\ tv_data \in {None, <<Ref(1)>>}
    /\ sub_entries = <<>>
    /\ tv_model = FALSE
    /\ tv_entries = <<>>
    /\ tv_alias = FALSE
    /\ tv_raised = FALSE

\* what a call of the view leaves alone
ViewFrame ==
    UNCHANGED <<client_vars, search_vars, dd_vars, win_vars, item_vars,
                poll_vars, view_rest, tv_cls>>

\* BaseDataTableView.set_data(data)
SetData ==
    /\ \E d \in ViewData : maybe_setup_model(tv_client, <<d>>)
    /\ op' = "set_data"
    /\ UNCHANGED tv_client
    /\ ViewFrame

\* the client setter of the view: _set_client(client)
SetViewClient ==
    /\ \E c \in ViewClients :
         /\ tv_client' = c
         /\ IF c = tv_client
            THEN UNCHANGED <<tv_data, sub_entries, tv_model, tv_entries,
                             tv_alias, tv_raised>>
            ELSE maybe_setup_model(c, tv_data)
    /\ op' = "set_client"
    /\ ViewFrame

NextView ==
    \/ SetData
    \/ SetViewClient

SpecView == InitView /\ [][NextView]_vars

\* the children of the Nestable d that the view's class gathers
Qualifying(d) ==
    LET Test(child) == Gathered(tv_cls, child)
    IN  SelectSeq(d.children, Test)

\* C40: after a call that set up the model for an entry, sub_entries and
\* the model's entries are the qualifying children of a Nestable in their
\* order (the entry itself for a PV entry in a LivePVTableView, nothing
\* otherwise), whatever was set before
C40_SubEntriesOfCurrentData ==
    (/\ op \in {"set_data", "set_client"}
     /\ ~tv_raised
     /\ tv_model
     /\ tv_data # None
     /\ tv_data[1].kind # "list")
       => /\ tv_entries = sub_entries
          /\ sub_entries =
               IF IsNestable(tv_data[1]) THEN Qualifying(tv_data[1])
               ELSE IF tv_cls = "LivePVTableView" THEN <<tv_data[1]>>
               ELSE <<>>

====
